---------------------------- MODULE Spec2Model ----------------------------
(***************************************************************************)
(* BattlEye RCon client: the Connection state machine and the Socket       *)
(* multiplexer of src/src/lib/errors.ts, the packets of packet.ts.         *)
(*                                                                         *)
(* Handlers are written as operators over a record S that holds the        *)
(* mutable program state (the connections, the packet/promise heap, the    *)
(* UDP sends whose callback has not run) together with what the handler    *)
(* did (events emitted, datagrams written, promise calls).  One action is  *)
(* one run of a handler up to its next await; it keeps the program state   *)
(* the handler leaves.                                                     *)
(***************************************************************************)
EXTENDS Integers, Sequences, FiniteSets, TLC

VARIABLES
  listening,    \* Socket.info.listening
  connections,  \* Socket.connections: the ids registered
  conn,         \* the Connection objects, by id
  reqs,         \* heap: request packets with the promise of their first send
  flight,       \* UDP sends whose callback has not run yet, oldest first
  now,          \* the clock, new Date().getTime()
  group,        \* the multipart reply the server is sending (environment)
  closed,       \* "open", "closing" once close() was called after an
                \* error of the UDP socket, "closed" after its callback
  codec         \* a packet, its serialized bytes and what they decode to

vars ==
  <<listening, connections, conn, reqs, flight, now, group, closed, codec>>

-----------------------------------------------------------------------------
(* Bounds of the model *)

MaxRequests == 2   \* requests alive at a time
MaxSequence == 1   \* sequence numbers a connection hands out before a reset
MaxFlight == 1     \* UDP sends awaiting their callback
MaxTime == 3       \* the clock stops here
MaxTimers == 2     \* interval timers of one kind alive on a connection
MaxReads == 257    \* reads of `sequence` in SpecSeq
MaxTotal == 3      \* fragments of the server's multipart reply
MaxSent == 2       \* serializations of one packet in SpecCodec

(* Program constants *)

LastSequence == 255     \* the largest sequence number
MultipartSlots == 255   \* new Array(255) filled with [] for i < 255
ResendThreshold == 5    \* resend.packet.sent >= 5

Conns == {"c1", "c2"}

UnknownCommandText == <<"Unknown ", "command">>   \* 'Unknown command'
Undefined == "undefined"

-----------------------------------------------------------------------------
(* Packets.  A text is a sequence of tokens, a Buffer likewise. *)

\* attributes a packet does not carry are undefined: login FALSE (falsy),
\* hasData FALSE, error and message Undefined, timestamp 0.  The constructor
\* replaces the attributes clear() has set by the ones it is given, and
\* Packet.FROM gives no timestamp: a decoded packet has none.
NoPacketFields ==
  [login |-> FALSE, sequence |-> -1, hasData |-> FALSE, data |-> <<>>,
   message |-> Undefined, error |-> Undefined, total |-> 0, index |-> 0,
   part |-> <<>>, timestamp |-> 0]

LoginReply(login) ==
  [NoPacketFields EXCEPT !.login = login] @@
  [type |-> "Login", direction |-> "Reply"]

CommandReply(sequence, data) ==
  [NoPacketFields EXCEPT !.sequence = sequence, !.hasData = TRUE,
                         !.data = data] @@
  [type |-> "Command", direction |-> "Reply"]

ErrorReply(type, sequence, error) ==
  [NoPacketFields EXCEPT !.sequence = sequence, !.error = error] @@
  [type |-> type, direction |-> "Reply"]

SplitReply(sequence, total, index, part) ==
  [NoPacketFields EXCEPT !.sequence = sequence, !.total = total,
                         !.index = index, !.part = part] @@
  [type |-> "Command", direction |-> "Split"]

MessagePacket(sequence, message) ==
  [NoPacketFields EXCEPT !.sequence = sequence, !.message = message] @@
  [type |-> "Message", direction |-> "Reply"]

\* if (packet.get('data')): undefined and '' are falsy
Truthy(packet) == packet.hasData /\ packet.data # <<>>

Pending == [kind |-> "pending"]
\* the response of a resolved request: data (when hasData), connected
Resolved(hasData, data, connected) ==
  [kind |-> "resolved", hasData |-> hasData, data |-> data,
   connected |-> connected]
\* the error of a rejected request; command is UnknownCommand's
Rejected(reason, command) ==
  [kind |-> "rejected", reason |-> reason, command |-> command]

-----------------------------------------------------------------------------
(* Connection *)

\* IConnectionOptions as given to Socket.connection; times in clock steps
OptionInputs ==
  [reconnect : BOOLEAN, keepAlive : BOOLEAN, timeout : BOOLEAN,
   serverTimeout : {2}, packetTimeout : {1}, packetTimeoutThresholded : {2}]

NoOptions == CHOOSE o \in OptionInputs : TRUE

NoTick == [active |-> FALSE, i |-> 0, time |-> 0, live |-> TRUE, arr |-> <<>>]

NewConnection(options) ==
  [connected |-> FALSE,
   sequence |-> -1,
   packets |-> <<>>,        \* slot -> request; absent slots are undefined
   multipart |-> <<>>,      \* sequence -> fragments; absent ones are []
   lastPacket |-> 0,        \* info.lastPacket.timestamp, 0 while undefined
   heard |-> 0,             \* the time info.lastPacket arrived, 0 while none
   keepAlive |-> FALSE,     \* this.keepAlive is a timer
   timeout |-> FALSE,       \* this.timeout is a timer
   keepAliveTimers |-> 0,   \* keep-alive intervals alive
   timeoutTimers |-> 0,     \* timeout intervals alive
   reconnects |-> 0,        \* reconnect timeouts not fired yet
   tick |-> NoTick,         \* the timeout callback suspended in its loop
   reads |-> 0,             \* reads of `sequence` since it was reset
   deferred |-> FALSE,      \* connect() waits for the socket's 'listening'
   options |-> options]

Emit(S, e) == [S EXCEPT !.emitted = Append(@, e)]

Ev(src, name, arg) == [src |-> src, name |-> name, arg |-> arg]

\* the getter with the comparison `>` for `>=`
SequenceAfterLate(sequence) ==
  IF sequence > LastSequence THEN 0 ELSE sequence + 1

\* get sequence()
SequenceAfter(sequence) ==
  IF sequence >= LastSequence THEN 0 ELSE sequence + 1

ReadSequence(S, c) ==
  [S EXCEPT !.conn[c].sequence = SequenceAfter(@),
            !.conn[c].reads = @ + 1]


Without(f, k) == [x \in DOMAIN f \ {k} |-> f[x]]

Min(set) == CHOOSE x \in set : \A y \in set : x <= y

-----------------------------------------------------------------------------
(* Promises *)

\* .then/.catch handlers attached where the request was made
Reaction(p, result) ==
  CASE p.origin = "keepAlive" /\ result.kind = "resolved" ->
         \* if (received && received.timestamp && sent.timestamp)
         IF NoPacketFields.timestamp # 0 /\ p.timestamp # 0
         THEN <<Ev(p.c, "debug", "ping")>> ELSE <<>>
    [] p.origin = "keepAlive" /\ result.kind = "rejected" ->
         <<Ev(p.c, "error", result.reason)>>
    [] p.origin = "reconnect" /\ result.kind = "rejected" ->
         <<Ev(p.c, "error", result.reason)>>
    [] p.origin = "socket" /\ result.kind = "rejected" ->
         <<Ev("socket", "error", result.reason)>>
    [] OTHER -> <<>>

\* resolve(value) / reject(reason) of the promise of request rid: only the
\* first call settles it
Settle(S, rid, result) ==
  LET S1 == [S EXCEPT !.calls = Append(@, [rid |-> rid, result |-> result])]
  IN  IF S.reqs[rid].result = Pending
      THEN [S1 EXCEPT !.reqs[rid].result = result,
                      !.micro = @ \o Reaction(S.reqs[rid], result)]
      ELSE S1

-----------------------------------------------------------------------------
(* Socket.send *)

\* new Packet(type, Request, attributes) at time created: the attributes
\* given replace the timestamp clear() has set; timestamp 0 is undefined
NewPacket(c, type, sequence, command, origin, timestamp, created) ==
  [c |-> c, type |-> type, sequence |-> sequence, command |-> command,
   timestamp |-> timestamp, created |-> created, sent |-> 0,
   result |-> Pending, origin |-> origin, wrote |-> FALSE,
   sentEvent |-> FALSE]

\* Packet.serialize refuses a Command without a command
SerializeError(p) ==
  IF p.type = "Command" /\ p.command = Undefined THEN "NoCommand" ELSE "none"

\* Socket.send up to the UDP write; cont says who awaits the promise:
\* "own" the caller of the request, "tick" the timeout loop, "gap" recieve
SocketSend(S, c, rid, resolve, cont) ==
  LET p  == S.reqs[rid]
      S1 == IF p.type = "Command" /\ p.sequence < 0
            THEN [ReadSequence(S, c) EXCEPT
                    !.reqs[rid].sequence = SequenceAfter(S.conn[c].sequence)]
            ELSE S
      q  == S1.reqs[rid]
  IN  IF SerializeError(q) # "none"
      THEN Settle(S1, rid, Rejected(SerializeError(q), Undefined))
      ELSE IF S.closed
      THEN \* dgram's send throws on a closed socket, after serialize
           Settle([S1 EXCEPT !.reqs[rid].sent = @ + 1], rid,
                  Rejected("NotRunning", Undefined))
      ELSE [S1 EXCEPT
              !.reqs[rid].sent = @ + 1,
              !.reqs[rid].wrote = TRUE,
              !.wire = Append(@, [c |-> c, rid |-> rid, type |-> q.type,
                                  sequence |-> q.sequence,
                                  events |-> Len(S.emitted)]),
              !.flight = Append(@, [c |-> c, rid |-> rid, resolve |-> resolve,
                                    cont |-> cont, sequence |-> q.sequence])]

\* Socket.send of a Message acknowledgement (resolve = false)
SocketSendAck(S, c, sequence) ==
  IF S.closed
  THEN \* dgram's send throws: .catch emits `error` on the connection
       [S EXCEPT !.micro = Append(@, Ev(c, "error", "NotRunning"))]
  ELSE [S EXCEPT
          !.wire = Append(@, [c |-> c, rid |-> 0, type |-> "Message",
                              sequence |-> sequence,
                              events |-> Len(S.emitted)]),
          !.flight = Append(@, [c |-> c, rid |-> 0, resolve |-> FALSE,
                                cont |-> "ack", sequence |-> sequence])]

-----------------------------------------------------------------------------
(* Connection.store *)

\* store without the check of the slot
StoreOverwrites(C, rid, p) ==
  CASE p.type = "Login" ->
         [packets |-> (0 :> rid) @@ Without(C.packets, 0), error |-> "none"]
    [] p.type = "Command" ->
         [packets |-> (p.sequence :> rid) @@ Without(C.packets, p.sequence),
          error |-> "none"]
    [] OTHER -> [packets |-> C.packets, error |-> "UnknownPacketType"]

\* the table after store, and the error thrown
Store(C, rid, p) ==
  CASE p.type = "Login" ->
         IF 0 \in DOMAIN C.packets
         THEN [packets |-> C.packets, error |-> "PacketOverflow"]
         ELSE [packets |-> (0 :> rid) @@ C.packets, error |-> "none"]
    [] p.type = "Command" ->
         IF p.sequence \in DOMAIN C.packets
         THEN [packets |-> C.packets, error |-> "PacketOverflow"]
         ELSE [packets |-> (p.sequence :> rid) @@ C.packets, error |-> "none"]
    [] OTHER -> [packets |-> C.packets, error |-> "UnknownPacketType"]

-----------------------------------------------------------------------------
(* Connection.cleanup, Connection.disconnect *)

RECURSIVE RejectFrom(_, _, _, _)
\* for (const packet of this.packets) packet.reject(error), from slot i on
RejectFrom(S, packets, i, error) ==
  LET rest == {k \in DOMAIN packets : k >= i}
  IN  IF rest = {} THEN S
      ELSE RejectFrom(Settle(S, packets[Min(rest)], Rejected(error, Undefined)),
                      packets, Min(rest) + 1, error)

\* cleanup() that rejects the pending requests and keeps their table
CleanupKeepsTable(S, c, error) ==
  LET C  == S.conn[c]
      S1 == RejectFrom(S, C.packets, 0, error)
  IN  [S1 EXCEPT
         !.conn[c].timeout = FALSE,
         !.conn[c].timeoutTimers = IF C.timeout THEN @ - 1 ELSE @,
         !.conn[c].keepAlive = FALSE,
         !.conn[c].keepAliveTimers = IF C.keepAlive THEN @ - 1 ELSE @,
         !.conn[c].sequence = -1,
         !.conn[c].reads = 0,
         !.conn[c].connected = FALSE,
         !.conn[c].multipart = <<>>]

Cleanup(S, c, error) ==
  LET C  == S.conn[c]
      S1 == RejectFrom(S, C.packets, 0, error)
  IN  [S1 EXCEPT
         !.conn[c].timeout = FALSE,
         !.conn[c].timeoutTimers = IF C.timeout THEN @ - 1 ELSE @,
         !.conn[c].keepAlive = FALSE,
         !.conn[c].keepAliveTimers = IF C.keepAlive THEN @ - 1 ELSE @,
         !.conn[c].sequence = -1,
         !.conn[c].reads = 0,
         !.conn[c].connected = FALSE,
         !.conn[c].packets = <<>>,
         !.conn[c].multipart = <<>>,
         \* a timeout callback suspended in its loop keeps iterating the
         \* array it started on, which is no longer this.packets
         !.conn[c].tick = IF C.tick.active /\ C.tick.live
                          THEN [C.tick EXCEPT !.live = FALSE,
                                              !.arr = C.packets]
                          ELSE C.tick]

Disconnect(S, c, reason) ==
  LET S1 == Emit(Cleanup(S, c, reason), Ev(c, "disconnected", reason))
  IN  IF S1.conn[c].options.reconnect /\ reason = "ServerTimeout"
      THEN [S1 EXCEPT !.conn[c].reconnects = @ + 1]
      ELSE S1

-----------------------------------------------------------------------------
(* Connection.resolve *)

\* a slot that is left as it was
KeepSlot(packets, s) == packets

\* packets.splice(s, 1): the entries after s move down by one
SpliceSlot(packets, s) ==
  [k \in {x \in DOMAIN packets : x < s} \cup
         {x - 1 : x \in {y \in DOMAIN packets : y > s}} |->
     IF k < s THEN packets[k] ELSE packets[k + 1]]

\* this.packets[s] = undefined
ClearSlot(packets, s) == Without(packets, s)

ResolveLogin(S, c, packet) ==
  LET login == packet.login
      S1 == [S EXCEPT !.conn[c].connected = login]
      has == 0 \in DOMAIN S.conn[c].packets
      rid == S.conn[c].packets[0]
      S2 == IF has
            THEN [Settle(S1, rid,
                         IF login THEN Resolved(FALSE, <<>>, TRUE)
                         ELSE Rejected("InvalidPassword", Undefined))
                    EXCEPT !.conn[c].packets = ClearSlot(@, 0)]
            ELSE S1
  IN  IF login THEN Emit(S2, Ev(c, "connected", Undefined))
      ELSE Disconnect(S2, c, "InvalidPassword")

\* the Command case that takes 'Unknown command' for the data of a reply
ResolveCommandAsData(S, c, packet) ==
  LET s   == packet.sequence
      has == s \in DOMAIN S.conn[c].packets
      rid == S.conn[c].packets[s]
      p   == S.reqs[rid]
      S1 == IF has
            THEN [Settle(S, rid,
                         \* store.reject(store.packet.get('error')): the
                         \* request packet carries no error attribute
                         IF packet.error # Undefined
                         THEN Rejected(Undefined, Undefined)
                         ELSE Resolved(packet.hasData, packet.data, FALSE))
                    EXCEPT !.conn[c].packets = ClearSlot(@, s)]
            ELSE S
  IN  IF Truthy(packet)
      THEN Emit(S1, [src |-> c, name |-> "command", arg |-> packet.data,
                     resolved |-> has])
      ELSE S1

ResolveCommand(S, c, packet) ==
  LET s   == packet.sequence
      has == s \in DOMAIN S.conn[c].packets
      rid == S.conn[c].packets[s]
      p   == S.reqs[rid]
      S1 == IF has
            THEN [Settle(S, rid,
                         \* store.reject(store.packet.get('error')): the
                         \* request packet carries no error attribute
                         IF packet.error # Undefined
                         THEN Rejected(Undefined, Undefined)
                         ELSE IF packet.data = UnknownCommandText
                              THEN Rejected("UnknownCommand", p.command)
                              ELSE Resolved(packet.hasData, packet.data,
                                            FALSE))
                    EXCEPT !.conn[c].packets = ClearSlot(@, s)]
            ELSE S
  IN  IF Truthy(packet)
      THEN Emit(S1, [src |-> c, name |-> "command", arg |-> packet.data,
                     resolved |-> has])
      ELSE S1

\* the Message case that acknowledges with the next sequence number of the
\* connection
ResolveMessageOwnSequence(S, c, packet) ==
  SocketSendAck(ReadSequence(Emit(S, Ev(c, "message", packet.message)), c),
                c, SequenceAfter(S.conn[c].sequence))

ResolveMessage(S, c, packet) ==
  SocketSendAck(Emit(S, Ev(c, "message", packet.message)), c, packet.sequence)

Resolve(S, c, packet) ==
  CASE packet.type = "Login" -> ResolveLogin(S, c, packet)
    [] packet.type = "Command" -> ResolveCommand(S, c, packet)
    [] packet.type = "Message" -> ResolveMessage(S, c, packet)
    [] OTHER -> Emit(S, Ev(c, "error", "UnknownPacketType"))

-----------------------------------------------------------------------------
(* Connection.recieve *)

NoFragments == [len |-> 0, items |-> <<>>]

\* this.multipart[sequence]
Fragments(C, s) == IF s \in DOMAIN C.multipart THEN C.multipart[s]
                   ELSE NoFragments

\* array[index] = part
SetItem(array, index, part) ==
  [len |-> IF index + 1 > array.len THEN index + 1 ELSE array.len,
   items |-> (index :> part) @@ array.items]

\* every slot of the array holds a Packet
Complete(array) == \A i \in 0 .. array.len - 1 : i \in DOMAIN array.items

RECURSIVE ConcatFrom(_, _)
\* Buffer.concat of the parts from slot i on
ConcatFrom(array, i) ==
  IF i >= array.len THEN <<>>
  ELSE array.items[i] \o ConcatFrom(array, i + 1)

RecieveSplit(S, c, packet) ==
  LET s     == packet.sequence
      C     == S.conn[c]
      old   == Fragments(C, s)
      array == SetItem(IF old.len = 0
                       THEN [len |-> packet.total, items |-> <<>>]
                       ELSE old,
                       packet.index, packet.part)
      S1    == [S EXCEPT !.conn[c].multipart = (s :> array) @@ @]
      rid   == C.packets[s]
  IN  IF s >= MultipartSlots
      THEN \* this.multipart[255] is undefined: TypeError, nobody awaits
           Emit(S, Ev("process", "unhandledRejection", "TypeError"))
      ELSE IF packet.index + 1 # packet.total THEN S1
      ELSE IF Complete(array)
      THEN Resolve([S1 EXCEPT !.conn[c].multipart = Without(@, s)], c,
                   CommandReply(s, ConcatFrom(array, 0)))
      ELSE IF s \notin DOMAIN C.packets THEN S1
      ELSE IF S.reqs[rid].sent >= ResendThreshold
      THEN SocketSend(S1, c, rid, FALSE, "gap")
      ELSE Resolve(S1, c, ErrorReply("Command", s, "MaxRetries"))

\* recieve that hands every packet, also a fragment, to resolve
RecieveUnsplit(S, c, packet) ==
  Resolve([S EXCEPT !.conn[c].lastPacket = packet.timestamp,
                    !.conn[c].heard = S.now], c, packet)

Recieve(S, c, packet) ==
  LET S1 == [S EXCEPT !.conn[c].lastPacket = packet.timestamp,
                      !.conn[c].heard = S.now]
  IN  IF packet.direction = "Split" THEN RecieveSplit(S1, c, packet)
      ELSE Resolve(S1, c, packet)

-----------------------------------------------------------------------------
(* Connection.connect, Connection.command, Connection.setup and its timers *)

Setup(S, c) ==
  LET o == S.conn[c].options
  IN  [S EXCEPT
         !.conn[c].keepAlive = IF o.keepAlive THEN TRUE ELSE @,
         !.conn[c].keepAliveTimers = IF o.keepAlive THEN @ + 1 ELSE @,
         !.conn[c].timeout = IF o.timeout THEN TRUE ELSE @,
         !.conn[c].timeoutTimers = IF o.timeout THEN @ + 1 ELSE @]

\* this.send(new Packet(type, Request, attributes), resolve)
SendNew(S, c, type, sequence, command, timestamp, resolve, origin) ==
  LET free == {rid \in DOMAIN S.reqs : S.reqs[rid].result.kind = "forgotten"}
      rid  == IF free = {} THEN Len(S.reqs) + 1 ELSE Min(free)
      p    == NewPacket(c, type, sequence, command, origin, timestamp, S.now)
  IN  SocketSend([S EXCEPT !.reqs = IF free = {} THEN Append(@, p)
                                    ELSE [@ EXCEPT ![rid] = p]],
                 c, rid, resolve, "own")

\* connect() that resets a connected connection with cleanup() for
\* disconnect()
ConnectResetQuietly(S, c, origin) ==
  IF ~S.listening THEN Emit(S, Ev(c, "throw", "NoConnection"))
  ELSE SendNew(Setup(IF S.conn[c].connected
                     THEN Cleanup(S, c, "ServerDisconnect")
                     ELSE S, c),
               c, "Login", -1, Undefined, 0, TRUE, origin)

Connect(S, c, origin) ==
  IF ~S.listening THEN Emit(S, Ev(c, "throw", "NoConnection"))
  ELSE SendNew(Setup(IF S.conn[c].connected
                     THEN Disconnect(S, c, "ServerDisconnect")
                     ELSE S, c),
               c, "Login", -1, Undefined, 0, TRUE, origin)

\* command() that tests the socket only
CommandUnconnected(S, c, command, resolve, origin) ==
  IF ~S.listening
  THEN Emit(S, Ev(c, "throw", "NoConnection"))
  ELSE SendNew(S, c, "Command", -1, command, 0, resolve, origin)

Command(S, c, command, resolve, origin) ==
  IF ~S.listening \/ ~S.conn[c].connected
  THEN Emit(S, Ev(c, "throw", "NoConnection"))
  ELSE SendNew(S, c, "Command", -1, command, 0, resolve, origin)

Kill(S, c, reason) == Disconnect(Emit(S, Ev(c, "error", reason)), c, reason)

\* the keep-alive callback without the test of `connected`
KeepAliveAlways(S, c) == Command(S, c, "", TRUE, "keepAlive")

KeepAlive(S, c) ==
  IF S.conn[c].connected THEN Command(S, c, "", TRUE, "keepAlive") ELSE S

RECURSIVE TimeoutLoop(_, _, _)
\* a loop that disconnects when it gives a request up
TimeoutLoopTearsDown(S, c, i) ==
  LET C    == S.conn[c]
      arr  == IF C.tick.live THEN C.packets ELSE C.tick.arr
      rest == {k \in DOMAIN arr : k >= i}
      k    == Min(rest)
      rid  == arr[k]
      p    == S.reqs[rid]
  IN  IF rest = {} THEN [S EXCEPT !.conn[c].tick = NoTick]
      ELSE IF p.timestamp # 0 /\
              C.tick.time - p.timestamp >= p.sent * C.options.packetTimeout
      THEN SocketSend([S EXCEPT !.conn[c].tick.i = k + 1], c, rid, FALSE,
                      "tick")
      ELSE IF p.sent >= C.options.packetTimeoutThresholded
      THEN [Disconnect(Resolve(S, c, ErrorReply(p.type, p.sequence,
                                                "ServerTimeout")),
                       c, "ServerTimeout")
              EXCEPT !.conn[c].tick = NoTick]
      ELSE TimeoutLoop(S, c, k + 1)

\* for (const p of this.packets), from slot i on, up to the next await
TimeoutLoop(S, c, i) ==
  LET C    == S.conn[c]
      arr  == IF C.tick.live THEN C.packets ELSE C.tick.arr
      rest == {k \in DOMAIN arr : k >= i}
      k    == Min(rest)
      rid  == arr[k]
      p    == S.reqs[rid]
  IN  IF rest = {} THEN [S EXCEPT !.conn[c].tick = NoTick]
      ELSE IF p.timestamp # 0 /\
              C.tick.time - p.timestamp >= p.sent * C.options.packetTimeout
      THEN SocketSend([S EXCEPT !.conn[c].tick.i = k + 1], c, rid, FALSE,
                      "tick")
      ELSE IF p.sent >= C.options.packetTimeoutThresholded
      THEN TimeoutLoop(Resolve(S, c, ErrorReply(p.type, p.sequence,
                                                "ServerTimeout")),
                       c, k + 1)
      ELSE TimeoutLoop(S, c, k + 1)

Timeout(S, c) ==
  LET C == S.conn[c]
  IN  IF C.lastPacket # 0 /\ S.now - C.lastPacket >= C.options.serverTimeout
      THEN Disconnect(S, c, "ServerTimeout")
      ELSE TimeoutLoop([S EXCEPT !.conn[c].tick =
                          [active |-> TRUE, i |-> 0, time |-> S.now,
                           live |-> TRUE, arr |-> <<>>]], c, 0)

-----------------------------------------------------------------------------
(* Socket.send: the callback of the UDP write *)

\* the write callback that stores before it emits 'sent'
SendDoneStoreFirst(S, f) ==
  LET st == Store(S.conn[f.c], f.rid, S.reqs[f.rid])
      S1 == Emit(IF f.rid # 0 THEN [S EXCEPT !.reqs[f.rid].sentEvent = TRUE]
                 ELSE S,
                 [src |-> "socket", name |-> "sent", arg |-> f.c,
                  rid |-> f.rid])
  IN  IF f.resolve
      THEN IF st.error # "none"
           THEN Settle(S, f.rid, Rejected(st.error, Undefined))
           ELSE [S1 EXCEPT !.conn[f.c].packets = st.packets]
      ELSE CASE f.cont = "own" ->
                  Settle(S1, f.rid, Resolved(FALSE, <<>>, FALSE))
             [] f.cont = "tick" -> TimeoutLoop(S1, f.c, S1.conn[f.c].tick.i)
             [] OTHER -> S1

SendDone(S, f) ==
  LET S1 == Emit(IF f.rid # 0 THEN [S EXCEPT !.reqs[f.rid].sentEvent = TRUE]
                 ELSE S,
                 [src |-> "socket", name |-> "sent", arg |-> f.c,
                  rid |-> f.rid])
      st == Store(S1.conn[f.c], f.rid, S1.reqs[f.rid])
  IN  IF f.resolve
      THEN IF st.error # "none"
           THEN Settle(S1, f.rid, Rejected(st.error, Undefined))
           ELSE [S1 EXCEPT !.conn[f.c].packets = st.packets]
      ELSE CASE f.cont = "own" ->
                  Settle(S1, f.rid, Resolved(FALSE, <<>>, FALSE))
             [] f.cont = "tick" -> TimeoutLoop(S1, f.c, S1.conn[f.c].tick.i)
             [] OTHER -> S1

SendFailed(S, f) ==
  CASE f.cont = "own" -> Settle(S, f.rid, Rejected("SendError", Undefined))
    [] f.cont = "tick" ->
         Emit([S EXCEPT !.conn[f.c].tick = NoTick],
              Ev(f.c, "error", "SendError"))
    [] f.cont = "gap" ->
         Resolve(S, f.c, ErrorReply("Command", f.sequence, "SendError"))
    [] OTHER -> Emit(S, Ev(f.c, "error", "SendError"))

-----------------------------------------------------------------------------
(* Socket.connection, the socket's 'listening' *)

SocketConnection(S, c, options, connect) ==
  LET S1 == [S EXCEPT !.conn[c] = NewConnection(options)]
  IN  IF ~connect THEN S1
      ELSE IF S.listening THEN Connect(S1, c, "socket")
      ELSE [S1 EXCEPT !.conn[c].deferred = TRUE]

RECURSIVE DeferredConnects(_, _, _)
\* the once('listening') handlers, in the order they were added
DeferredConnects(S, ids, i) ==
  IF i > Len(ids) THEN S
  ELSE DeferredConnects(IF S.conn[ids[i]].deferred
                        THEN Connect([S EXCEPT !.conn[ids[i]].deferred = FALSE],
                                     ids[i], "socket")
                        ELSE S,
                        ids, i + 1)

-----------------------------------------------------------------------------
(* The state machine *)

NoPacket == NoPacketFields @@ [type |-> "none", direction |-> "none"]
NoFlight == [c |-> "none", rid |-> 0, resolve |-> FALSE, cont |-> "none",
             sequence |-> -1]
NoGroup == [c |-> "none", rid |-> 0, sequence |-> -1, total |-> 0,
            delivered |-> {}]
NoCodec == [packet |-> <<>>, buffer |-> <<>>, error |-> "unsent",
            flipped |-> 0,   \* the byte of the buffer a bit was flipped in
            decoded |-> [error |-> "unread", text |-> "", packet |-> <<>>]]

\* a request that is settled and that nothing refers to any more
Forgotten == [NewPacket("none", "none", -1, Undefined, "none", 0, 0)
                EXCEPT !.result = [kind |-> "forgotten"]]

Referenced(rid) ==
  \/ \E c \in Conns :
        \/ \E k \in DOMAIN conn[c].packets : conn[c].packets[k] = rid
        \/ \E k \in DOMAIN conn[c].tick.arr : conn[c].tick.arr[k] = rid
  \/ \E i \in DOMAIN flight : flight[i].rid = rid
  \/ group.rid = rid

\* the state a handler starts on
Start ==
  [listening |-> listening, conn |-> conn,
   reqs |-> [rid \in DOMAIN reqs |->
               IF reqs[rid].result # Pending /\ ~Referenced(rid)
               THEN Forgotten ELSE reqs[rid]],
   flight |-> flight, closed |-> closed # "open",
   now |-> now, emitted |-> <<>>, wire |-> <<>>, calls |-> <<>>,
   micro |-> <<>>]

WithinBounds(S) ==
  /\ Len(S.reqs) <= MaxRequests
  /\ Len(S.flight) <= MaxFlight
  /\ \A c \in Conns : /\ S.conn[c].sequence <= MaxSequence
                      /\ S.conn[c].timeoutTimers <= MaxTimers
                      /\ S.conn[c].keepAliveTimers <= MaxTimers
                      /\ S.conn[c].reconnects <= MaxTimers

\* the events of a handler: promise reactions run after it
Events(S) == S.emitted \o S.micro

\* the state a handler leaves
Finish(S) ==
  /\ WithinBounds(S)
  /\ conn' = S.conn
  /\ reqs' = S.reqs
  /\ flight' = S.flight

Registered == {connections[i] : i \in DOMAIN connections}

\* socket.connection that replaces a connection registered under the id
RegisterAnyway(S, c, options, connect) ==
  SocketConnection(S, c, options, connect)

\* socket.connection(details, options, connect): it throws ConnectionExists
\* if the id of the new connection is registered
Register(S, c, options, connect) ==
  IF c \in Registered
  THEN Emit(S, Ev("socket", "throw", "ConnectionExists"))
  ELSE SocketConnection(S, c, options, connect)

\* a Login request is registered on c and its promise is not settled
LoginStored(c) ==
  /\ 0 \in DOMAIN conn[c].packets
  /\ reqs[conn[c].packets[0]].type = "Login"
  /\ reqs[conn[c].packets[0]].result = Pending

Init ==
  /\ listening = FALSE
  /\ connections = <<>>
  /\ conn = [c \in Conns |-> NewConnection(NoOptions)]
  /\ reqs = <<>>
  /\ flight = <<>>
  /\ now = 1
  /\ group = NoGroup
  /\ closed = "open"
  /\ codec = NoCodec

\* the UDP socket is bound
Listen ==
  /\ ~listening /\ closed = "open"
  /\ listening' = TRUE
  /\ Finish(DeferredConnects(
              Emit([Start EXCEPT !.listening = TRUE],
                   Ev("socket", "listening", Undefined)),
              connections, 1))
  /\ UNCHANGED <<connections, now, group, closed, codec>>

\* socket.connection(details, options, connect)
NewConn(c, options, connect) ==
  /\ Finish(Register(Start, c, options, connect))
  /\ connections' = IF c \in Registered THEN connections
                    ELSE Append(connections, c)
  /\ UNCHANGED <<listening, now, group, closed, codec>>

\* connection.connect()
AppConnect(c) ==
  /\ c \in Registered
  /\ Finish(Connect(Start, c, "app"))
  /\ UNCHANGED <<listening, connections, now, group, closed, codec>>

\* connection.command(command, resolve)
AppCommand(c, command, resolve) ==
  /\ c \in Registered
  /\ Finish(Command(Start, c, command, resolve, "app"))
  /\ UNCHANGED <<listening, connections, now, group, closed, codec>>

\* connection.send(new Packet(Command, Request, attributes)) where the
\* attributes are {command, sequence} and, if stamped, the time as timestamp
AppSend(c, sequence, command, stamped) ==
  /\ c \in Registered
  /\ Finish(SendNew(Start, c, "Command", sequence, command,
                    IF stamped THEN now ELSE 0, TRUE, "app"))
  /\ UNCHANGED <<listening, connections, now, group, closed, codec>>

\* connection.kill(reason)
AppKill(c, reason) ==
  /\ c \in Registered
  /\ Finish(Kill(Start, c, reason))
  /\ UNCHANGED <<listening, connections, now, group, closed, codec>>

\* Socket.receive of a datagram that decodes to packet, from c's address
Receive(c, packet) ==
  /\ c \in Registered
  /\ Finish(Recieve(Start, c, packet))
  /\ UNCHANGED <<listening, connections, now, group, closed, codec>>

\* the callback of the oldest UDP write, without error
SendCallback ==
  /\ flight # <<>>
  /\ Finish(SendDone([Start EXCEPT !.flight = Tail(@)], Head(flight)))
  /\ UNCHANGED <<listening, connections, now, group, closed, codec>>

\* the callback of the oldest UDP write, with an error
SendError ==
  /\ flight # <<>>
  /\ Finish(SendFailed([Start EXCEPT !.flight = Tail(@)], Head(flight)))
  /\ UNCHANGED <<listening, connections, now, group, closed, codec>>

\* a timeout interval of c fires
TimeoutTick(c) ==
  /\ conn[c].timeoutTimers > 0
  /\ ~conn[c].tick.active
  /\ Finish(Timeout(Start, c))
  /\ UNCHANGED <<listening, connections, now, group, closed, codec>>

\* a keep-alive interval of c fires
KeepAliveTick(c) ==
  /\ conn[c].keepAliveTimers > 0
  /\ Finish(KeepAlive(Start, c))
  /\ UNCHANGED <<listening, connections, now, group, closed, codec>>

\* the reconnect timeout of c fires
ReconnectTimer(c) ==
  /\ conn[c].reconnects > 0
  /\ Finish(Connect([Start EXCEPT !.conn[c].reconnects = @ - 1], c,
                    "reconnect"))
  /\ UNCHANGED <<listening, connections, now, group, closed, codec>>

\* the clock advances
Clock ==
  /\ now < MaxTime
  /\ now' = now + 1
  /\ Finish(Start)
  /\ UNCHANGED <<listening, connections, group, closed, codec>>

-----------------------------------------------------------------------------
(* Spec: one connection with its timers and the clock *)

TimedOptions ==
  {o \in OptionInputs : o.keepAlive /\ o.timeout}

TimedPackets ==
  {LoginReply(TRUE), LoginReply(FALSE), CommandReply(0, <<"ok">>),
   MessagePacket(7, "Player joined")}

Next ==
  \/ Listen
  \/ \E o \in TimedOptions : NewConn("c1", o, TRUE)
  \/ AppConnect("c1")
  \/ AppCommand("c1", "players", TRUE)
  \/ AppSend("c1", 0, "players", TRUE)
  \/ \E reason \in {"Error", "ServerTimeout"} : AppKill("c1", reason)
  \/ \E p \in TimedPackets : Receive("c1", p)
  \/ SendCallback
  \/ TimeoutTick("c1")
  \/ KeepAliveTick("c1")
  \/ ReconnectTimer("c1")
  \/ Clock

Spec == Init /\ [][Next]_vars

-----------------------------------------------------------------------------
(* SpecSession: one connection without timers; requests, replies, stores *)

SessionOptions ==
  {o \in OptionInputs : ~o.keepAlive /\ ~o.timeout}

\* the data of a Command reply: a text, '', 'Unknown command'
ReplyTexts == {<<"ok">>, <<>>, UnknownCommandText}

SessionPackets ==
  {LoginReply(TRUE), LoginReply(FALSE), MessagePacket(7, "Player joined")}
  \cup {CommandReply(s, d) : s \in {0, 1}, d \in ReplyTexts}
  \cup {SplitReply(0, 2, i, <<"part">>) : i \in {0, 1}}

NextSession ==
  \/ Listen
  \/ \E o \in SessionOptions, a \in BOOLEAN : NewConn("c1", o, a)
  \/ AppConnect("c1")
  \/ \E r \in BOOLEAN : AppCommand("c1", "players", r)
  \/ AppSend("c1", 0, "players", FALSE)
  \/ AppKill("c1", "Error")
  \/ \E p \in SessionPackets : Receive("c1", p)
  \/ SendCallback
  \/ SendError

SpecSession == Init /\ [][NextSession]_vars

-----------------------------------------------------------------------------
(* SpecSeq: successive reads of `sequence` on fresh connections *)

\* one read of connection.sequence
ReadSeq(c) ==
  /\ conn[c].reads < MaxReads
  /\ conn' = ReadSequence(Start, c).conn
  /\ UNCHANGED <<listening, connections, reqs, flight, now, group, closed,
               codec>>

NextSeq == \E c \in Conns : ReadSeq(c)

SpecSeq == Init /\ [][NextSeq]_vars

\* C6: on a fresh connection the reads of `sequence` number 1..256 return
\* 0..255 in that order, read 257 returns 0, and every value returned is
\* in 0..255.  (conn[c].sequence is the value the last read returned.)
SequenceWraps ==
  \A c \in Conns :
    LET r == conn[c].reads
    IN  /\ r \in 1 .. 256 => conn[c].sequence = r - 1
        /\ r = 257 => conn[c].sequence = 0
        /\ r > 0 => conn[c].sequence \in 0 .. LastSequence

SequenceWrapped ==
  conn["c1"].reads = 257 /\ conn["c1"].sequence = 0

-----------------------------------------------------------------------------
(* SpecReassembly: the server answers a pending command with a multipart   *)
(* reply and every fragment is delivered once, in any order                *)

\* the part of fragment i
Part(i) == <<ToString(i)>>

\* the fragment i of the multipart reply the server is sending
Fragment(i) == SplitReply(group.sequence, group.total, i, Part(i))

\* no multipart reply is under way
Idle == group.delivered = 0 .. group.total - 1

\* the server starts to answer the pending command of sequence s on c with
\* a reply of total fragments
ServerReply(c, s, total) ==
  /\ Idle
  /\ s \in DOMAIN conn[c].packets
  /\ reqs[conn[c].packets[s]].type = "Command"
  /\ reqs[conn[c].packets[s]].result = Pending
  /\ group' = [c |-> c, rid |-> conn[c].packets[s], sequence |-> s,
               total |-> total, delivered |-> {}]
  /\ UNCHANGED <<listening, connections, conn, reqs, flight, now, closed,
               codec>>

\* Socket.receive of the fragment i, which has not arrived yet
ServerFragment(i) ==
  /\ i \in (0 .. group.total - 1) \ group.delivered
  /\ Finish(Recieve(Start, group.c, Fragment(i)))
  /\ group' = [group EXCEPT !.delivered = @ \cup {i}]
  /\ UNCHANGED <<listening, connections, now, closed, codec>>

\* the server accepts the login that is pending on c
ServerLogin(c) ==
  /\ LoginStored(c)
  /\ Receive(c, LoginReply(TRUE))

NextReassembly ==
  \/ Listen
  \/ \E o \in SessionOptions : NewConn("c1", o, TRUE)
  \/ ServerLogin("c1")
  \/ SendCallback
  \/ AppCommand("c1", "players", TRUE)
  \/ \E s \in 0 .. MaxSequence, total \in 1 .. MaxTotal :
        ServerReply("c1", s, total)
  \/ \E i \in 0 .. MaxTotal - 1 : ServerFragment(i)

SpecReassembly == Init /\ [][NextReassembly]_vars

-----------------------------------------------------------------------------
(* The runs of the handlers that can start in the current state *)

Packets == TimedPackets \cup SessionPackets

Run(op, c, packet, out) == [op |-> op, c |-> c, packet |-> packet, out |-> out]

\* calls of the application on connection c
Calls(c) ==
  IF c \notin Registered THEN {}
  ELSE {Run("connect", c, NoPacket, Connect(Start, c, "app"))}
       \cup {Run("command", c, NoPacket,
                 Command(Start, c, "players", r, "app")) : r \in BOOLEAN}
       \cup {Run("send", c, NoPacket,
                 SendNew(Start, c, "Command", 0, "players",
                         IF st THEN now ELSE 0, TRUE, "app")) : st \in BOOLEAN}
       \cup {Run("kill", c, NoPacket, Kill(Start, c, reason)) :
                 reason \in {"Error", "ServerTimeout"}}

\* datagrams for connection c
Arrivals(c) ==
  IF c \notin Registered THEN {}
  ELSE {Run("receive", c, p, Recieve(Start, c, p)) : p \in Packets}

\* the callback of the oldest UDP write, if it is one of c
Callbacks(c) ==
  IF flight = <<>> \/ Head(flight).c # c THEN {}
  ELSE {Run("sent", c, NoPacket,
            SendDone([Start EXCEPT !.flight = Tail(@)], Head(flight))),
        Run("sendError", c, NoPacket,
            SendFailed([Start EXCEPT !.flight = Tail(@)], Head(flight)))}

\* the timers of c
Ticks(c) ==
  (IF conn[c].timeoutTimers > 0 /\ ~conn[c].tick.active
   THEN {Run("timeout", c, NoPacket, Timeout(Start, c))} ELSE {})
  \cup (IF conn[c].keepAliveTimers > 0
       THEN {Run("keepAlive", c, NoPacket, KeepAlive(Start, c))} ELSE {})
  \cup (IF conn[c].reconnects > 0
       THEN {Run("reconnect", c, NoPacket,
                 Connect([Start EXCEPT !.conn[c].reconnects = @ - 1], c,
                         "reconnect"))}
       ELSE {})

Runs(c) == Calls(c) \cup Arrivals(c) \cup Callbacks(c) \cup Ticks(c)

Emitted(h, c, name) ==
  \E i \in DOMAIN Events(h.out) :
     Events(h.out)[i].src = c /\ Events(h.out)[i].name = name

EmittedWith(h, c, name, arg) ==
  \E i \in DOMAIN Events(h.out) : Events(h.out)[i] = Ev(c, name, arg)

-----------------------------------------------------------------------------
(* Claims *)

\* C1: `connected` changes from false to true only in a step that processes
\* an inbound Login reply with login=true, and from true to false only in
\* a step that disconnects (it emits `disconnected`); a command, a store
\* (the write callback), the receipt of a Command or Message packet and a
\* timer tick that does not disconnect leave it as it is.
ConnectedTransitions ==
  \A h \in Runs("c1") :
    LET was == conn["c1"].connected
        is  == h.out.conn["c1"].connected
    IN  /\ ~was /\ is => h.op = "receive" /\ h.packet = LoginReply(TRUE)
        /\ was /\ ~is => Emitted(h, "c1", "disconnected")
        /\ ( \/ h.op \in {"command", "send", "sent", "sendError"}
             \/ h.op = "receive" /\ h.packet.type \in {"Command", "Message"}
             \/ h.op \in {"timeout", "keepAlive"}
                  /\ ~Emitted(h, "c1", "disconnected") )
           => is = was

\* a connected connection on which connect() is called again
ConnectedThenReset ==
  \E h \in Runs("c1") :
     /\ h.op = "connect" /\ conn["c1"].connected
     /\ ~h.out.conn["c1"].connected
     /\ EmittedWith(h, "c1", "disconnected", "ServerDisconnect")

\* the run of Socket.receive on c for packet
Arrival(c, packet) == Run("receive", c, packet, Recieve(Start, c, packet))

\* C2: when a Login reply with login=true arrives while a Login request is
\* stored, the connection becomes connected, that request is resolved with
\* connected=true and leaves the pending table, and `connected` is emitted.
LoginAccepted ==
  LoginStored("c1") =>
    LET rid == conn["c1"].packets[0]
        h   == Arrival("c1", LoginReply(TRUE))
    IN  /\ h.out.conn["c1"].connected
        /\ h.out.reqs[rid].result = Resolved(FALSE, <<>>, TRUE)
        /\ \A k \in DOMAIN h.out.conn["c1"].packets :
              h.out.conn["c1"].packets[k] # rid
        /\ EmittedWith(h, "c1", "connected", Undefined)

\* the connection right after its Login request was resolved
LoggedIn ==
  /\ conn["c1"].connected
  /\ conn["c1"].packets = <<>>
  /\ \E rid \in DOMAIN reqs :
        /\ reqs[rid].type = "Login"
        /\ reqs[rid].result = Resolved(FALSE, <<>>, TRUE)

\* the slots of c that hold a Command request whose promise is not settled
CommandSlots(c) ==
  {s \in DOMAIN conn[c].packets :
     /\ reqs[conn[c].packets[s]].type = "Command"
     /\ reqs[conn[c].packets[s]].result = Pending}

\* C4: a Command reply with sequence s completes exactly the request
\* registered at s, with the reply's data (the data 'Unknown command'
\* completes it with UnknownCommand), removes only that entry and leaves
\* every other pending request registered at its own sequence, whatever the
\* order in which the replies arrive.
RepliesMatchedBySequence ==
  \A s \in CommandSlots("c1"), d \in ReplyTexts :
    LET table == conn["c1"].packets
        rid   == table[s]
        h     == Arrival("c1", CommandReply(s, d))
    IN  /\ h.out.reqs[rid].result =
             IF d = UnknownCommandText
             THEN Rejected("UnknownCommand", reqs[rid].command)
             ELSE Resolved(TRUE, d, FALSE)
        /\ \A i \in DOMAIN h.out.calls : h.out.calls[i].rid = rid
        /\ h.out.conn["c1"].packets = [k \in DOMAIN table \ {s} |-> table[k]]
        /\ \A k \in DOMAIN table \ {s} :
              h.out.reqs[table[k]] = reqs[table[k]]

\* the reply of sequence 1 has arrived before the reply of sequence 0
RepliedOutOfOrder ==
  /\ 0 \in CommandSlots("c1")
  /\ 1 \notin DOMAIN conn["c1"].packets
  /\ \E rid \in DOMAIN reqs :
        /\ reqs[rid].type = "Command" /\ reqs[rid].sequence = 1
        /\ reqs[rid].result = Resolved(TRUE, <<"ok">>, FALSE)

\* the oldest UDP write is one of a Command of c that expects a reply and
\* whose sequence holds a pending Command request
Colliding(c) ==
  /\ flight # <<>>
  /\ Head(flight).c = c /\ Head(flight).resolve
  /\ reqs[Head(flight).rid].type = "Command"
  /\ reqs[Head(flight).rid].sequence \in CommandSlots(c)

\* the run of the callback of the oldest UDP write
Written == Run("sent", Head(flight).c, NoPacket,
               SendDone([Start EXCEPT !.flight = Tail(@)], Head(flight)))

\* the requests registered on c
Stored(c) == {conn[c].packets[k] : k \in DOMAIN conn[c].packets}

\* C5: storing a Command request at a sequence that holds a pending Command
\* request fails with PacketOverflow and leaves the registered request and
\* the table unchanged; so the Command requests registered on a connection
\* have distinct sequences, each registered at its own.
StoreOverflow ==
  /\ Colliding("c1") =>
       LET rid == Head(flight).rid
           old == conn["c1"].packets[reqs[rid].sequence]
       IN  /\ Written.out.reqs[rid].result =
                 Rejected("PacketOverflow", Undefined)
           /\ Written.out.conn["c1"].packets = conn["c1"].packets
           /\ Written.out.reqs[old] = reqs[old]
  /\ \A k \in DOMAIN conn["c1"].packets :
        reqs[conn["c1"].packets[k]].type = "Command" =>
          reqs[conn["c1"].packets[k]].sequence = k
  /\ \A r1, r2 \in Stored("c1") :
        /\ r1 # r2
        /\ reqs[r1].type = "Command" /\ reqs[r2].type = "Command"
        => reqs[r1].sequence # reqs[r2].sequence

\* a Command was refused at a sequence whose request is still registered
OverflowRefused ==
  \E rid \in DOMAIN reqs :
     /\ reqs[rid].type = "Command"
     /\ reqs[rid].result = Rejected("PacketOverflow", Undefined)
     /\ reqs[rid].sequence \in CommandSlots("c1")
     /\ conn["c1"].packets[reqs[rid].sequence] # rid

\* connection.send of a Command with sequence s that expects a reply
Sending(c, s) ==
  Run("send", c, NoPacket,
      SendNew(Start, c, "Command", s, "players", 0, TRUE, "app"))

\* C7 as claimed: a Command that expects a reply and is sent with a sequence
\* that still has a pending entry fails with PacketOverflow before
\* transmission: no UDP write and no `sent` event happens for that packet.
OverflowBeforeTransmission ==
  /\ \A s \in CommandSlots("c1") : Sending("c1", s).out.wire = <<>>
  /\ \A rid \in DOMAIN reqs :
        reqs[rid].result = Rejected("PacketOverflow", Undefined) =>
          ~reqs[rid].wrote /\ ~reqs[rid].sentEvent

\* C7 as amended: such a Command is written to the UDP socket with its
\* sequence and stays unsettled; the callback of the write emits `sent` for
\* it and then, if the entry is still pending, fails the send with
\* PacketOverflow and leaves the registered entry unchanged.
OverflowAfterTransmission ==
  /\ \A s \in CommandSlots("c1") :
        LET out == Sending("c1", s).out
        IN  /\ Len(out.wire) = 1
            /\ out.wire[1].type = "Command" /\ out.wire[1].sequence = s
            /\ out.reqs[out.wire[1].rid].result = Pending
            /\ out.conn["c1"].packets = conn["c1"].packets
  /\ Colliding("c1") =>
       LET rid == Head(flight).rid
       IN  /\ Written.out.emitted =
                 <<[src |-> "socket", name |-> "sent", arg |-> "c1",
                    rid |-> rid]>>
           /\ Written.out.calls =
                 <<[rid |-> rid,
                    result |-> Rejected("PacketOverflow", Undefined)]>>
           /\ Written.out.conn["c1"].packets = conn["c1"].packets
  /\ \A rid \in DOMAIN reqs :
        reqs[rid].result = Rejected("PacketOverflow", Undefined) =>
          reqs[rid].wrote /\ reqs[rid].sentEvent

\* a Command that was transmitted and then refused with PacketOverflow
OverflowAfterSent ==
  \E rid \in DOMAIN reqs :
     /\ reqs[rid].type = "Command"
     /\ reqs[rid].result = Rejected("PacketOverflow", Undefined)
     /\ reqs[rid].wrote /\ reqs[rid].sentEvent

\* C3: when a Login reply with login=false arrives while a Login request is
\* pending, that request is rejected with InvalidPassword, the connection
\* emits `disconnected` with InvalidPassword and is not connected, no
\* keep-alive or timeout interval of it is left running, every other
\* pending request is rejected, and no reconnect is scheduled.
LoginRefused ==
  LoginStored("c1") =>
    LET table == conn["c1"].packets
        h     == Arrival("c1", LoginReply(FALSE))
        C     == h.out.conn["c1"]
    IN  /\ h.out.reqs[table[0]].result = Rejected("InvalidPassword", Undefined)
        /\ EmittedWith(h, "c1", "disconnected", "InvalidPassword")
        /\ ~C.connected
        /\ \A k \in DOMAIN table : h.out.reqs[table[k]].result.kind = "rejected"
        /\ C.packets = <<>>
        /\ C.reconnects = conn["c1"].reconnects
        /\ C.timeoutTimers = 0 /\ C.keepAliveTimers = 0

RECURSIVE PartsFrom(_, _)
\* the parts i .. total-1 of a multipart reply, in index order
PartsFrom(i, total) ==
  IF i >= total THEN <<>> ELSE Part(i) \o PartsFrom(i + 1, total)

\* C8: when every fragment of a multipart reply to a pending Command
\* request has been delivered once, in whatever order, the request is
\* resolved with the concatenation of the parts in index order.
MultipartAnyOrder ==
  group.total > 0 /\ Idle =>
    reqs[group.rid].result = Resolved(TRUE, PartsFrom(0, group.total), FALSE)

\* the table of c has an empty slot in the group of packet once packet is
\* stored in it
Gap(c, packet) ==
  LET old == Fragments(conn[c], packet.sequence)
  IN  ~Complete(SetItem(IF old.len = 0
                        THEN [len |-> packet.total, items |-> <<>>]
                        ELSE old,
                        packet.index, packet.part))

\* C9: when the fragment with index+1 = total arrives and a slot of its
\* group is still empty, a pending request at that sequence that was sent 5
\* times or more is retransmitted and stays pending in its slot, and
\* otherwise the pending request is failed with MaxRetries.
GapRecovery ==
  \A i \in (0 .. group.total - 1) \ group.delivered :
    /\ i + 1 = group.total
    /\ Gap(group.c, Fragment(i))
    /\ group.sequence \in CommandSlots(group.c)
    /\ conn[group.c].packets[group.sequence] = group.rid
    => LET out == Arrival(group.c, Fragment(i)).out
       IN  IF reqs[group.rid].sent >= ResendThreshold
           THEN /\ Len(out.wire) = 1 /\ out.wire[1].rid = group.rid
                /\ out.reqs[group.rid].result = Pending
                /\ out.conn[group.c].packets = conn[group.c].packets
           ELSE out.reqs[group.rid].result = Rejected("MaxRetries", Undefined)

\* the pending requests of c that are due: the time since the packet was
\* created is at least sent * packetTimeout
Due(c) ==
  {k \in DOMAIN conn[c].packets :
     now - reqs[conn[c].packets[k]].created >=
       reqs[conn[c].packets[k]].sent * conn[c].options.packetTimeout}

\* C10: on a timeout tick that does not disconnect, a pending request that
\* is due is retransmitted (the tick runs up to the first retransmission
\* it awaits, so the first due request is written in this run): the same
\* packet goes out with its sequence, its sent count grows by one, the
\* sequence counter stays and no pending entry is added.
TickRetransmits ==
  /\ conn["c1"].timeoutTimers > 0 /\ ~conn["c1"].tick.active
  /\ Due("c1") # {}
  /\ ~Emitted(Run("timeout", "c1", NoPacket, Timeout(Start, "c1")), "c1",
              "disconnected")
  => LET out == Timeout(Start, "c1")
         rid == conn["c1"].packets[Min(Due("c1"))]
     IN  /\ Len(out.wire) = 1
         /\ out.wire[1].rid = rid
         /\ out.wire[1].sequence = reqs[rid].sequence
         /\ out.reqs[rid].sent = reqs[rid].sent + 1
         /\ out.conn["c1"].sequence = conn["c1"].sequence
         /\ out.conn["c1"].reads = conn["c1"].reads
         /\ DOMAIN out.conn["c1"].packets \subseteq DOMAIN conn["c1"].packets
         /\ Len(out.reqs) = Len(reqs)

\* a timeout interval of c can fire
TickReady(c) == conn[c].timeoutTimers > 0 /\ ~conn[c].tick.active

\* the run of the timeout callback of c up to its first await
Ticking(c) == Run("timeout", c, NoPacket, Timeout(Start, c))

\* C11: the timeout check fails no pending request that was sent fewer than
\* packetTimeoutThresholded times, every request it completes fails with
\* ServerTimeout, and a request sent that often which is not due for a
\* retransmission is failed with ServerTimeout and leaves the table (in a
\* check that runs to its end).
RetryExhaustion ==
  TickReady("c1") =>
    LET out   == Ticking("c1").out
        table == conn["c1"].packets
        limit == conn["c1"].options.packetTimeoutThresholded
    IN  /\ \A k \in DOMAIN table :
              reqs[table[k]].sent < limit =>
                /\ out.reqs[table[k]].result = reqs[table[k]].result
                /\ k \in DOMAIN out.conn["c1"].packets
        /\ \A i \in DOMAIN out.calls :
              out.calls[i].result = Rejected("ServerTimeout", Undefined)
        /\ \A k \in DOMAIN table \ Due("c1") :
              reqs[table[k]].sent >= limit /\ ~out.conn["c1"].tick.active =>
                /\ out.reqs[table[k]].result =
                      Rejected("ServerTimeout", Undefined)
                /\ k \notin DOMAIN out.conn["c1"].packets

\* C12: when the last inbound packet of a connection with the timeout
\* scheduler arrived serverTimeout or more ago, the next timeout tick
\* disconnects it with ServerTimeout (not connected, `disconnected` with
\* ServerTimeout emitted) and schedules a reconnect iff reconnect is enabled.
ServerLiveness ==
  /\ TickReady("c1")
  /\ conn["c1"].heard # 0
  /\ now - conn["c1"].heard >= conn["c1"].options.serverTimeout
  => LET h == Ticking("c1")
     IN  /\ EmittedWith(h, "c1", "disconnected", "ServerTimeout")
         /\ ~h.out.conn["c1"].connected
         /\ h.out.conn["c1"].reconnects =
               conn["c1"].reconnects +
                 (IF conn["c1"].options.reconnect THEN 1 ELSE 0)

-----------------------------------------------------------------------------
(* SpecLive: a server that accepts the login and then answers no command,
   with the timeout interval, the UDP callbacks and the clock running
   fairly; the application may connect again and send commands *)

NextLive ==
  \/ Listen
  \/ \E o \in TimedOptions : NewConn("c1", o, TRUE)
  \/ AppConnect("c1")
  \/ ServerLogin("c1")
  \/ AppCommand("c1", "players", TRUE)
  \/ SendCallback
  \/ TimeoutTick("c1")
  \/ KeepAliveTick("c1")
  \/ Clock

SpecLive ==
  /\ Init
  /\ [][NextLive]_vars
  /\ WF_vars(TimeoutTick("c1"))
  /\ WF_vars(SendCallback)
  /\ WF_vars(Clock)

\* request rid is registered in the table of c1 and its promise is pending
Waiting(rid) ==
  /\ rid \in DOMAIN reqs
  /\ reqs[rid].result = Pending
  /\ \E k \in DOMAIN conn["c1"].packets : conn["c1"].packets[k] = rid

\* C13: with the timeout interval firing fairly, every request that is
\* registered as pending while a timeout interval of the connection runs
\* eventually terminates (its promise settles or it leaves the table), also
\* when no reply to it ever arrives.
RequestsTerminate ==
  \A rid \in 1 .. MaxRequests :
     (Waiting(rid) /\ conn["c1"].timeoutTimers > 0) ~> ~Waiting(rid)

-----------------------------------------------------------------------------
\* the run of kill(reason) on c, which is disconnect(reason) after `error`
Killing(c, reason) == Run("kill", c, NoPacket, Kill(Start, c, reason))

\* C14: disconnect(reason) leaves no keep-alive or timeout interval running,
\* rejects every pending request of the table with reason, leaves the table
\* and the reassembly state empty, resets the sequence counter so that the
\* next command gets sequence 0, leaves the connection not connected and
\* emits `disconnected` with reason.
DisconnectTearsDown ==
  "c1" \in Registered =>
    \A reason \in {"Error", "ServerTimeout"} :
       LET table == conn["c1"].packets
           h     == Killing("c1", reason)
           C     == h.out.conn["c1"]
       IN  /\ C.timeoutTimers = 0 /\ C.keepAliveTimers = 0
           /\ ~C.timeout /\ ~C.keepAlive
           /\ \A k \in DOMAIN table :
                 reqs[table[k]].result = Pending =>
                   h.out.reqs[table[k]].result = Rejected(reason, Undefined)
           /\ C.packets = <<>>
           /\ C.multipart = <<>>
           /\ ReadSequence(h.out, "c1").conn["c1"].sequence = 0
           /\ ~C.connected
           /\ EmittedWith(h, "c1", "disconnected", reason)

-----------------------------------------------------------------------------
\* the positions of the `disconnected` events of c in the run h
Disconnects(h, c) ==
  {i \in DOMAIN Events(h.out) :
     Events(h.out)[i].src = c /\ Events(h.out)[i].name = "disconnected"}

\* C15: after a disconnect of a connection an automatic connect() is
\* scheduled iff the reason of that disconnect is ServerTimeout and
\* reconnect is enabled: after a disconnect for any other reason no
\* reconnect timeout of the connection is left to fire.
ReconnectPolicy ==
  \A h \in Runs("c1") :
     Disconnects(h, "c1") # {} =>
       LET last == CHOOSE i \in Disconnects(h, "c1") :
                     \A j \in Disconnects(h, "c1") : j <= i
           reason == Events(h.out)[last].arg
       IN  h.out.conn["c1"].reconnects > 0 <=>
             (reason = "ServerTimeout" /\ conn["c1"].options.reconnect)

-----------------------------------------------------------------------------
\* C16: a connection has at most one running keep-alive interval and at most
\* one running timeout interval, and between a disconnect and the next
\* connect() (while the handles are cleared) none is running, so that no
\* tick of it can fire.
OneTimerEach ==
  LET C == conn["c1"]
  IN  /\ C.keepAliveTimers <= 1
      /\ C.timeoutTimers <= 1
      /\ ~C.keepAlive => C.keepAliveTimers = 0
      /\ ~C.timeout => C.timeoutTimers = 0

-----------------------------------------------------------------------------
\* the run of the keep-alive callback of c
Pinging(c) == Run("keepAlive", c, NoPacket, KeepAlive(Start, c))

\* C17: a keep-alive tick of a connected connection writes exactly one
\* Command request with the empty string as command, which takes the next
\* sequence number and is sent to be registered as pending; a keep-alive
\* tick of a connection that is not connected writes nothing, emits nothing
\* and changes no state.
KeepAlivePing ==
  conn["c1"].keepAliveTimers > 0 =>
    LET out == Pinging("c1").out
        q   == SequenceAfter(conn["c1"].sequence)
    IN  IF conn["c1"].connected
        THEN /\ Len(out.wire) = 1
             /\ out.wire[1].type = "Command"
             /\ out.wire[1].sequence = q
             /\ out.conn["c1"].sequence = q
             /\ out.reqs[out.wire[1].rid].command = ""
             /\ out.reqs[out.wire[1].rid].result = Pending
             /\ Len(out.flight) = Len(flight) + 1
             /\ out.flight[Len(out.flight)].rid = out.wire[1].rid
             /\ out.flight[Len(out.flight)].resolve
        ELSE /\ out.wire = <<>>
             /\ Events(out) = <<>>
             /\ out.conn = conn
             /\ out.reqs = Start.reqs
             /\ out.flight = flight

\* a keep-alive request is registered and pending
KeepAliveRegistered ==
  \E k \in DOMAIN conn["c1"].packets :
     LET p == reqs[conn["c1"].packets[k]]
     IN  /\ p.origin = "keepAlive"
         /\ p.type = "Command" /\ p.command = "" /\ p.sequence = k
         /\ p.result = Pending

-----------------------------------------------------------------------------
\* the server message the claims below are stated on
Broadcast == MessagePacket(7, "Player joined")

\* the write at the head of the queue is the acknowledgement of a message
Acknowledging(c) ==
  /\ flight # <<>>
  /\ Head(flight).c = c
  /\ Head(flight).cont = "ack"

\* C18: on an inbound Message with sequence q the connection first emits
\* `message` with its text and then writes exactly one Message
\* acknowledgement with the same q; neither the arrival nor the callback of
\* that write registers a request or moves the sequence counter.
MessageAcknowledged ==
  /\ "c1" \in Registered =>
       LET out == Arrival("c1", Broadcast).out
       IN  /\ \E i \in DOMAIN out.emitted :
                 /\ out.emitted[i] = Ev("c1", "message", Broadcast.message)
                 /\ Len(out.wire) = 1
                 /\ out.wire[1].events >= i
           /\ out.wire[1].type = "Message"
           /\ out.wire[1].sequence = Broadcast.sequence
           /\ out.conn["c1"].packets = conn["c1"].packets
           /\ out.conn["c1"].sequence = conn["c1"].sequence
           /\ out.conn["c1"].reads = conn["c1"].reads
           /\ out.reqs = Start.reqs
  /\ Acknowledging("c1") =>
       \A h \in Callbacks("c1") :
          /\ h.out.conn["c1"].packets = conn["c1"].packets
          /\ h.out.conn["c1"].sequence = conn["c1"].sequence
          /\ h.out.reqs = Start.reqs

\* the acknowledgement of the message is written and awaits its callback
MessageAckWritten ==
  /\ Acknowledging("c1")
  /\ Head(flight).sequence = Broadcast.sequence
  /\ Head(flight).rid = 0

-----------------------------------------------------------------------------
\* C19: a Command reply with the data 'Unknown command' whose sequence holds
\* a pending Command request rejects that request with UnknownCommand
\* carrying the command of the request and removes its entry; the
\* connection stays as connected as it was, emits no `disconnected`, and
\* every other entry of the table stays registered and unsettled.
UnknownCommandRejected ==
  \A s \in CommandSlots("c1") :
    LET table == conn["c1"].packets
        h     == Arrival("c1", CommandReply(s, UnknownCommandText))
    IN  /\ h.out.reqs[table[s]].result =
             Rejected("UnknownCommand", reqs[table[s]].command)
        /\ s \notin DOMAIN h.out.conn["c1"].packets
        /\ h.out.conn["c1"].connected = conn["c1"].connected
        /\ ~Emitted(h, "c1", "disconnected")
        /\ \A k \in DOMAIN table \ {s} :
              /\ k \in DOMAIN h.out.conn["c1"].packets
              /\ h.out.conn["c1"].packets[k] = table[k]
              /\ h.out.reqs[table[k]].result = reqs[table[k]].result

\* the command of sequence 1 was refused as unknown while the connection
\* is connected and the command of sequence 0 is still pending
UnknownCommandSeen ==
  /\ conn["c1"].connected
  /\ 0 \in CommandSlots("c1")
  /\ 1 \notin DOMAIN conn["c1"].packets
  /\ \E rid \in DOMAIN reqs :
        /\ reqs[rid].type = "Command" /\ reqs[rid].sequence = 1
        /\ reqs[rid].result = Rejected("UnknownCommand", "players")

-----------------------------------------------------------------------------
\* the positions of the `command` events of c in the run h
CommandEvents(h, c) ==
  {i \in DOMAIN Events(h.out) :
     Events(h.out)[i].src = c /\ Events(h.out)[i].name = "command"}

\* C20: every inbound Command reply that is not a part of a multipart reply
\* makes the connection emit exactly one `command` event, with the data of
\* the reply and with resolved = true iff a request was registered at the
\* sequence of the reply.
CommandEventAlways ==
  "c1" \in Registered =>
    \A s \in 0 .. MaxSequence, d \in ReplyTexts :
       LET h == Arrival("c1", CommandReply(s, d))
       IN  /\ Cardinality(CommandEvents(h, "c1")) = 1
           /\ \A i \in CommandEvents(h, "c1") :
                 /\ Events(h.out)[i].arg = d
                 /\ Events(h.out)[i].resolved =
                      (s \in DOMAIN conn["c1"].packets)

-----------------------------------------------------------------------------
\* the oldest UDP write is one of a Command of c with sequence 0 that
\* expects a reply, while the Login request of c is registered and pending
CommandBesideLogin(c) ==
  /\ LoginStored(c)
  /\ flight # <<>>
  /\ Head(flight).c = c /\ Head(flight).resolve
  /\ reqs[Head(flight).rid].type = "Command"
  /\ reqs[Head(flight).rid].sequence = 0

\* C21: the pending Login request has a slot of its own: a Command request
\* with sequence 0 is registered beside it, no Command reply completes the
\* pending Login request, and no accepting Login reply completes a pending
\* Command request.
LoginSlotApart ==
  /\ CommandBesideLogin("c1") =>
       /\ Written.out.reqs[Head(flight).rid].result = Pending
       /\ Head(flight).rid \in
            {Written.out.conn["c1"].packets[k] :
               k \in DOMAIN Written.out.conn["c1"].packets}
  /\ LoginStored("c1") =>
       \A s \in 0 .. MaxSequence, d \in ReplyTexts :
          Arrival("c1", CommandReply(s, d)).out
            .reqs[conn["c1"].packets[0]].result = Pending
  /\ \A s \in CommandSlots("c1") :
        Arrival("c1", LoginReply(TRUE)).out
          .reqs[conn["c1"].packets[s]].result = Pending

-----------------------------------------------------------------------------
\* a Login request of c is pending: written or registered, and not settled
LoginInFlight(c) ==
  \E rid \in DOMAIN reqs :
     /\ reqs[rid].c = c
     /\ reqs[rid].type = "Login"
     /\ reqs[rid].result = Pending

\* C22: `connected` becomes true only in a step that starts while a Login
\* request of the connection is pending, never on a connection that has no
\* login in flight.
ConnectedFromLogin ==
  \A h \in Runs("c1") :
     ~conn["c1"].connected /\ h.out.conn["c1"].connected
       => LoginInFlight("c1")

-----------------------------------------------------------------------------
\* the fragments of a reply in two parts to the command of sequence 0
SplitPackets == {SplitReply(0, 2, i, <<"part">>) : i \in {0, 1}}

\* the array of the group of packet once packet is stored in it
Stocked(c, packet) ==
  LET old == Fragments(conn[c], packet.sequence)
  IN  SetItem(IF old.len = 0 THEN [len |-> packet.total, items |-> <<>>]
              ELSE old,
              packet.index, packet.part)

\* the run h leaves the pending table and every request as they were
Untouched(h, c) ==
  /\ h.out.conn[c].packets = conn[c].packets
  /\ h.out.calls = <<>>
  /\ h.out.wire = <<>>
  /\ \A rid \in DOMAIN reqs : h.out.reqs[rid].result = Start.reqs[rid].result

\* C23 as claimed: a fragment that does not complete its group changes no
\* pending entry and completes no request.
SplitNeverMatched ==
  "c1" \in Registered =>
    \A p \in SplitPackets :
       ~Complete(Stocked("c1", p)) => Untouched(Arrival("c1", p), "c1")

\* C23 as amended: a fragment is never handed to resolve itself. A fragment
\* that is not the one with the last index changes no pending entry and
\* completes no request; the fragment with the last index touches at most
\* the request registered at its sequence, which is resolved (and a `command`
\* event emitted) only if the group is complete, with the parts concatenated
\* in index order; if the group has a gap that request is failed or
\* retransmitted.
SplitFeedsReassembly ==
  "c1" \in Registered =>
    \A p \in SplitPackets :
       LET h == Arrival("c1", p)
       IN  /\ p.index + 1 # p.total => Untouched(h, "c1")
           /\ \A i \in DOMAIN h.out.calls :
                 /\ p.sequence \in DOMAIN conn["c1"].packets
                 /\ h.out.calls[i].rid = conn["c1"].packets[p.sequence]
                 /\ h.out.calls[i].result.kind = "resolved" =>
                      /\ Complete(Stocked("c1", p))
                      /\ h.out.calls[i].result =
                           Resolved(TRUE, ConcatFrom(Stocked("c1", p), 0),
                                    FALSE)
           /\ Emitted(h, "c1", "command") => Complete(Stocked("c1", p))
           /\ \A rid \in DOMAIN reqs :
                 h.out.reqs[rid].result # Start.reqs[rid].result =>
                   /\ p.sequence \in DOMAIN conn["c1"].packets
                   /\ rid = conn["c1"].packets[p.sequence]

\* the first fragment of a reply is held for the pending command of
\* sequence 0, which is still registered
FragmentHeld ==
  /\ 0 \in CommandSlots("c1")
  /\ 0 \in DOMAIN conn["c1"].multipart
  /\ DOMAIN conn["c1"].multipart[0].items = {0}

-----------------------------------------------------------------------------
\* C24: socket.connection for an address whose id is registered throws
\* ConnectionExists: the registered connection keeps its state, nothing is
\* written (no Login), no request is made and no interval is started.
DuplicateRefused ==
  "c1" \in Registered =>
    \A o \in OptionInputs, connect \in BOOLEAN :
       LET out == Register(Start, "c1", o, connect)
       IN  /\ Events(out) = <<Ev("socket", "throw", "ConnectionExists")>>
           /\ out.conn = conn
           /\ out.wire = <<>>
           /\ out.flight = flight
           /\ out.reqs = Start.reqs
           /\ out.listening = listening

\* a connected connection with a pending command and running intervals is
\* registered, so that a further socket.connection for its address is refused
DuplicateOfLive ==
  /\ "c1" \in Registered
  /\ conn["c1"].connected
  /\ CommandSlots("c1") # {}
  /\ conn["c1"].keepAliveTimers > 0 /\ conn["c1"].timeoutTimers > 0

-----------------------------------------------------------------------------
(* Packet on the wire: serialize and Packet.FROM.  A Buffer is a sequence
   of bytes, a string the sequence of its (ASCII) bytes; the attributes of
   a packet are a function on the names of the attributes it has. *)

PacketType == [Login |-> 0, Command |-> 1, Message |-> 2]
PacketDirection == [Request |-> 0, Reply |-> 1, Split |-> 2]

\* clear(): the attributes are the timestamp and, for a Request, sent = 0
Clear(p) ==
  [p EXCEPT !.attributes =
     ("timestamp" :> now) @@
     (IF p.direction = PacketDirection.Request THEN "sent" :> 0 ELSE <<>>)]

\* new Packet(type, direction, attributes): this.clear(), and then
\* this.attributes = { ...attributes } puts the attributes given in the
\* place of the ones clear() has set
Packet(type, direction, attributes) ==
  [Clear([type |-> type, direction |-> direction, attributes |-> <<>>])
     EXCEPT !.attributes = attributes]

\* has(key)
Has(p, key) == key \in DOMAIN p.attributes

\* get sent()
Sent(p) == IF Has(p, "sent") THEN p.attributes.sent ELSE 0

\* get sequence()
Sequence(p) == IF Has(p, "sequence") THEN p.attributes.sequence ELSE -1

\* get valid()
Valid(p) == p.type \in Int /\ p.direction \in Int

RECURSIVE XorBits(_, _, _)
\* a ^ b on the n low bits
XorBits(a, b, n) ==
  IF n = 0 THEN 0
  ELSE ((a + b) % 2) + 2 * XorBits(a \div 2, b \div 2, n - 1)

\* a ^ b for bytes, from a table: entry a + 1, b + 1 is a ^ b
XorTable ==
  [a \in 1 .. 256 |->
     [b \in 1 .. 256 |-> XorBits(a - 1, b - 1, 8)] \o <<>>] \o <<>>

XorByte(a, b) == XorTable[a + 1][b + 1]

\* a 32-bit word is four bytes, the most significant first
XorWord(u, v) ==
  <<XorByte(u[1], v[1]), XorByte(u[2], v[2]),
    XorByte(u[3], v[3]), XorByte(u[4], v[4])>>

ShiftRight(u) ==
  <<u[1] \div 2,
    (u[2] \div 2) + 128 * (u[1] % 2),
    (u[3] \div 2) + 128 * (u[2] % 2),
    (u[4] \div 2) + 128 * (u[3] % 2)>>

\* the reflected polynomial of IEEE CRC-32, 0xEDB88320
Polynomial == <<237, 184, 131, 32>>

RECURSIVE CrcRounds(_, _)
\* n rounds of shift and conditional xor
CrcRounds(u, n) ==
  IF n = 0 THEN u
  ELSE IF u[4] % 2 = 1
  THEN CrcRounds(XorWord(ShiftRight(u), Polynomial), n - 1)
  ELSE CrcRounds(ShiftRight(u), n - 1)

\* the table of the byte-wise CRC: entry n + 1 is the register that eight
\* rounds leave of the byte n
CrcTable == [n \in 1 .. 256 |-> CrcRounds(<<0, 0, 0, n - 1>>, 8)] \o <<>>

RECURSIVE CrcBytes(_, _)
\* the register after the first n bytes
CrcBytes(bytes, n) ==
  IF n = 0 THEN <<255, 255, 255, 255>>
  ELSE LET u == CrcBytes(bytes, n - 1)
       IN  XorWord(<<0, u[1], u[2], u[3]>>,
                   CrcTable[XorByte(u[4], bytes[n]) + 1])

\* IEEE CRC-32 of the payload, as a word
Crc32(payload) ==
  XorWord(CrcBytes(payload, Len(payload)), <<255, 255, 255, 255>>)

\* the four bytes header.writeInt32BE(crc32(payload).readInt32LE(0), 2)
\* writes: the CRC, least significant byte first
Checksum(payload) ==
  LET w == Crc32(payload) IN <<w[4], w[3], w[2], w[1]>>

\* the header and the payload
Frame(payload) == <<66, 69>> \o Checksum(payload) \o payload

\* writeUInt8 throws outside 0 .. 255
Byte(n) == n \in 0 .. 255

\* the switch of serialize: the payload, or the error thrown
Payload(p) ==
  CASE p.type = PacketType.Login ->
         IF ~Has(p, "password")
         THEN [error |-> "NoPassword", bytes |-> <<>>]
         ELSE [error |-> "none",
               bytes |-> <<255, p.type>> \o p.attributes.password]
    [] p.type = PacketType.Command ->
         IF ~Has(p, "command")
         THEN [error |-> "NoCommand", bytes |-> <<>>]
         ELSE IF ~Byte(Sequence(p))
         THEN [error |-> "RangeError", bytes |-> <<>>]
         ELSE [error |-> "none",
               bytes |-> <<255, p.type, Sequence(p)>> \o p.attributes.command]
    [] p.type = PacketType.Message ->
         IF ~Byte(Sequence(p))
         THEN [error |-> "RangeError", bytes |-> <<>>]
         ELSE [error |-> "none", bytes |-> <<255, p.type, Sequence(p)>>]
    [] OTHER -> [error |-> "UnknownPacketType", bytes |-> <<>>]

\* serialize(): the buffer and the packet with its `sent`, or the error
Serialize(p) ==
  LET r == Payload(p)
  IN  IF ~Valid(p)
      THEN [error |-> "InvalidPacket", buffer |-> <<>>, packet |-> p]
      ELSE IF r.error # "none"
      THEN [error |-> r.error, buffer |-> <<>>, packet |-> p]
      ELSE [error |-> "none", buffer |-> Frame(r.bytes),
            packet |-> [p EXCEPT !.attributes =
                          ("sent" :> Sent(p) + 1) @@ @]]

\* the switch of Packet.FROM on the type byte of the payload
Attributes(payload) ==
  LET type == payload[2]
      rest(i) == SubSeq(payload, i, Len(payload))
  IN  CASE type = PacketType.Login ->
             [error |-> "none", direction |-> PacketDirection.Reply,
              attributes |-> [login |-> payload[3] = 1]]
        [] type = PacketType.Command ->
             IF Len(payload) > 4 /\ payload[4] = 0
             THEN IF Len(payload) < 6
                  THEN \* readUInt8(5) beyond the end of the buffer
                       [error |-> "RangeError", direction |-> 0,
                        attributes |-> <<>>]
                  ELSE [error |-> "none",
                        direction |-> PacketDirection.Split,
                        attributes |->
                          [sequence |-> payload[3], total |-> payload[5],
                           index |-> payload[6], part |-> rest(7)]]
             ELSE [error |-> "none", direction |-> PacketDirection.Reply,
                   attributes |-> [sequence |-> payload[3],
                                   data |-> rest(4)]]
        [] type = PacketType.Message ->
             [error |-> "none", direction |-> PacketDirection.Reply,
              attributes |-> [sequence |-> payload[3], message |-> rest(4)]]
        [] OTHER -> [error |-> "UnknownPacketType", direction |-> 0,
                     attributes |-> <<>>]

\* Packet.FROM that does not verify the checksum
FromUnverified(buffer) ==
  LET payload == SubSeq(buffer, 7, Len(buffer))
      a       == Attributes(payload)
      thrown(e, text) == [error |-> e, text |-> text, packet |-> <<>>]
  IN  IF Len(buffer) < 9 THEN thrown("PacketError", "length")
      ELSE IF SubSeq(buffer, 1, 2) # <<66, 69>>
      THEN thrown("PacketError", "header")
      ELSE IF payload[1] # 255 THEN thrown("PacketError", "flag")
      ELSE IF a.error # "none" THEN thrown(a.error, "")
      ELSE [error |-> "none", text |-> "",
            packet |-> Packet(payload[2], a.direction, a.attributes)]

\* Packet.FROM(buffer): the packet, or the error thrown with its text
From(buffer) ==
  LET payload == SubSeq(buffer, 7, Len(buffer))
      a       == Attributes(payload)
      thrown(e, text) == [error |-> e, text |-> text, packet |-> <<>>]
  IN  IF Len(buffer) < 9 THEN thrown("PacketError", "length")
      ELSE IF SubSeq(buffer, 1, 2) # <<66, 69>>
      THEN thrown("PacketError", "header")
      ELSE IF SubSeq(buffer, 3, 6) # Checksum(payload)
      THEN thrown("PacketError", "checksum")
      ELSE IF payload[1] # 255 THEN thrown("PacketError", "flag")
      ELSE IF a.error # "none" THEN thrown(a.error, "")
      ELSE [error |-> "none", text |-> "",
            packet |-> Packet(payload[2], a.direction, a.attributes)]

-----------------------------------------------------------------------------
(* Socket.receive *)

\* the characters of the texts used here, by their byte
Ascii == (104 :> "h") @@ (105 :> "i") @@ (107 :> "k") @@ (111 :> "o")

RECURSIVE Utf8(_)
\* Buffer.toString(): the text of the bytes, character by character
Utf8(bytes) ==
  IF bytes = <<>> THEN <<>>
  ELSE <<IF Head(bytes) \in DOMAIN Ascii THEN Ascii[Head(bytes)] ELSE "?">>
       \o Utf8(Tail(bytes))

\* the packet Packet.FROM returns, with the attributes it has not undefined
Inbound(p) ==
  CASE p.type = PacketType.Login -> LoginReply(p.attributes.login)
    [] p.type = PacketType.Command /\ p.direction = PacketDirection.Split ->
         SplitReply(p.attributes.sequence, p.attributes.total,
                    p.attributes.index, p.attributes.part)
    [] p.type = PacketType.Command ->
         CommandReply(p.attributes.sequence, Utf8(p.attributes.data))
    [] OTHER -> MessagePacket(p.attributes.sequence,
                              Utf8(p.attributes.message))

\* receive that routes before it decodes and reports no decode error
SocketReceiveTrusting(S, from, buffer) ==
  IF from \notin Registered
  THEN Emit(S, Ev("socket", "error", "UnknownConnection"))
  ELSE Recieve(S, from,
               IF From(buffer).error = "none"
               THEN Inbound(From(buffer).packet)
               ELSE LoginReply(FALSE))

\* receive that hands every datagram to the connection registered first
SocketReceiveFirst(S, from, buffer) ==
  IF from \notin Registered
  THEN Emit(S, Ev("socket", "error", "UnknownConnection"))
  ELSE LET r == From(buffer)
       IN  IF r.error # "none"
           THEN Emit(Emit(S, Ev("socket", "error", r.error)),
                     Ev(from, "error", r.error))
           ELSE Recieve(S, connections[1], Inbound(r.packet))

\* receive(buffer, info) for a datagram from the address of id `from`; a
\* packet that FROM returns is always valid
SocketReceive(S, from, buffer) ==
  IF from \notin Registered
  THEN Emit(S, Ev("socket", "error", "UnknownConnection"))
  ELSE LET r == From(buffer)
       IN  IF r.error # "none"
           THEN Emit(Emit(S, Ev("socket", "error", r.error)),
                     Ev(from, "error", r.error))
           ELSE Emit(Emit(Recieve(S, from, Inbound(r.packet)),
                          Ev("socket", "received", from)),
                     Ev(from, "received", Undefined))

\* a datagram arrives at the bound socket
Datagram(from, buffer) ==
  /\ listening /\ closed = "open"
  /\ Finish(SocketReceive(Start, from, buffer))
  /\ UNCHANGED <<listening, connections, now, group, closed, codec>>

-----------------------------------------------------------------------------
(* the 'error' handler of the UDP socket *)

\* this.emit('error', err); this.socket.close(...)
SocketFailed(S, err) ==
  [Emit(S, Ev("socket", "error", err)) EXCEPT !.closed = TRUE]

RECURSIVE KillEvery(_, _, _, _)
\* for (const id of Object.keys(this.connections)) connection.kill(err),
\* from the i-th id on
KillEvery(S, ids, i, err) ==
  IF i > Len(ids) THEN S
  ELSE KillEvery(Kill(S, ids[i], err), ids, i + 1, err)

\* a callback of close() that kills the first connection only
CloseCallbackFirst(S, err) ==
  IF connections = <<>> THEN S ELSE Kill(S, connections[1], err)

\* the callback of this.socket.close
CloseCallback(S, err) == KillEvery(S, connections, 1, err)

\* the UDP socket emits 'error'
SocketError ==
  /\ closed = "open"
  /\ closed' = "closing"
  /\ Finish(SocketFailed(Start, "Error"))
  /\ UNCHANGED <<listening, connections, now, group, codec>>

\* the socket is closed: the callback of close() runs
SocketClosed ==
  /\ closed = "closing"
  /\ closed' = "closed"
  /\ Finish(CloseCallback(Start, "Error"))
  /\ UNCHANGED <<listening, connections, now, group, codec>>

-----------------------------------------------------------------------------
(* SpecSocket: two connections on one socket, datagrams as bytes *)

\* the ids of the addresses datagrams come from; c3 is never registered
Sources == Conns \cup {"c3"}

\* a Login reply with login=true, the reply 'ok' to the command of sequence
\* 0 and the server message 'hi' with sequence 7, as the server frames them
GoodDatagrams ==
  {Frame(<<255, 0, 1>>), Frame(<<255, 1, 0, 111, 107>>),
   Frame(<<255, 2, 7, 104, 105>>)}

\* the Login reply with a wrong header text
BadHeader == {[Frame(<<255, 0, 1>>) EXCEPT ![1] = 67]}

\* the command reply with one bit of the checksum flipped and the server
\* message with one bit of the payload flipped
BadChecksum ==
  {[Frame(<<255, 1, 0, 111, 107>>) EXCEPT ![3] = XorBits(@, 1, 8)],
   [Frame(<<255, 2, 7, 104, 105>>) EXCEPT ![9] = XorBits(@, 1, 8)]}

Datagrams == GoodDatagrams \cup BadHeader \cup BadChecksum

PlainOptions ==
  {o \in OptionInputs : ~o.reconnect /\ ~o.keepAlive /\ ~o.timeout}

NextSocket ==
  \/ Listen
  \/ \E c \in Conns, o \in PlainOptions : NewConn(c, o, TRUE)
  \/ \E c \in Conns : AppCommand(c, "players", TRUE)
  \/ \E from \in Sources, b \in Datagrams : Datagram(from, b)
  \/ SendCallback

SpecSocket == Init /\ [][NextSocket]_vars

\* the same with the failure of the UDP socket
NextShutdown == NextSocket \/ SocketError \/ SocketClosed

SpecShutdown == Init /\ [][NextShutdown]_vars

\* C25: a datagram from an address that is not registered is dropped after
\* an UnknownConnection error on the socket, and a datagram with a bad
\* header or a bad checksum after an error on the socket and on the
\* connection: no connection changes (connected, sequence, pending table,
\* reassembly table, last packet), nothing is written, no request settles.
BadDatagramDropped ==
  \A from \in Sources, b \in Datagrams :
     LET out == SocketReceive(Start, from, b)
     IN  from \notin Registered \/ b \in BadHeader \cup BadChecksum =>
           /\ out.conn = conn
           /\ out.reqs = Start.reqs
           /\ out.flight = flight
           /\ out.wire = <<>>
           /\ out.calls = <<>>
           /\ Events(out) =
                IF from \notin Registered
                THEN <<Ev("socket", "error", "UnknownConnection")>>
                ELSE <<Ev("socket", "error", "PacketError"),
                       Ev(from, "error", "PacketError")>>

\* c1 is connected with a command pending, c2 is not registered: the state
\* datagrams with a bad frame for c1 and datagrams from c2 arrive in
BadDatagramMatters ==
  /\ "c1" \in Registered /\ "c2" \notin Registered
  /\ conn["c1"].connected
  /\ 0 \in CommandSlots("c1")
  /\ listening

-----------------------------------------------------------------------------
\* the events of connection c among the events of S, in order
EventsOf(S, c) == SelectSeq(Events(S), LAMBDA e : e.src = c)

\* C26: on an error of the UDP socket the socket is closed and the callback
\* of the close kills every registered connection: each emits `error` and
\* then `disconnected` with the error of the socket, ends not connected and
\* with every pending request of its table rejected with that error; a
\* socket that left the open state never returns to it.
SocketErrorKillsAll ==
  /\ [](closed = "closing" =>
          LET out == CloseCallback(Start, "Error")
          IN  \A c \in Registered :
                 /\ Len(EventsOf(out, c)) >= 2
                 /\ EventsOf(out, c)[1] = Ev(c, "error", "Error")
                 /\ EventsOf(out, c)[Len(EventsOf(out, c))] =
                      Ev(c, "disconnected", "Error")
                 /\ ~out.conn[c].connected
                 /\ out.conn[c].packets = <<>>
                 /\ \A k \in DOMAIN conn[c].packets :
                       reqs[conn[c].packets[k]].result = Pending =>
                         out.reqs[conn[c].packets[k]].result =
                           Rejected("Error", Undefined))
  /\ [][/\ closed # "open" => closed' # "open"
        /\ closed = "closed" => \A c \in Conns : ~conn'[c].connected]_vars

\* the socket failed with c1 connected and a command pending and with c2
\* registered as well; the callback of the close has both to kill
SocketFailsBusy ==
  /\ closed = "closing"
  /\ connections = <<"c1", "c2">>
  /\ conn["c1"].connected
  /\ CommandSlots("c1") # {}
  /\ ~CloseCallback(Start, "Error").conn["c1"].connected

-----------------------------------------------------------------------------
\* out leaves connection b as it is
Spares(out, b) ==
  /\ out.conn[b].connected = conn[b].connected
  /\ out.conn[b].sequence = conn[b].sequence
  /\ out.conn[b].packets = conn[b].packets
  /\ out.conn[b].multipart = conn[b].multipart
  /\ \A k \in DOMAIN conn[b].packets :
        out.reqs[conn[b].packets[k]] = reqs[conn[b].packets[k]]

-----------------------------------------------------------------------------
\* the call throws NoConnection and does nothing else
Refused(out, c) ==
  /\ Events(out) = <<Ev(c, "throw", "NoConnection")>>
  /\ out.conn = conn
  /\ out.reqs = Start.reqs
  /\ out.flight = flight
  /\ out.wire = <<>>
  /\ out.calls = <<>>

\* C28: connect() while the socket is not listening, and command() while
\* the socket is not listening or the connection is not connected, throw
\* NoConnection and change nothing: no timer is started, the sequence
\* counter is not read, nothing is written and no request is made or stored.
NoConnectionRefused ==
  \A c \in Registered :
     /\ ~listening => Refused(Connect(Start, c, "app"), c)
     /\ ~listening \/ ~conn[c].connected =>
          \A r \in BOOLEAN : Refused(Command(Start, c, "players", r, "app"), c)

\* the socket is listening and c1 waits for the answer to its Login: a
\* command() now is one on a connection that is not connected
CommandBeforeLogin ==
  /\ "c1" \in Registered /\ listening
  /\ ~conn["c1"].connected
  /\ 0 \in DOMAIN conn["c1"].packets
  /\ Refused(Command(Start, "c1", "players", TRUE, "app"), "c1")

-----------------------------------------------------------------------------
(* SpecCodec: one packet, serialized and decoded *)

\* an attribute that is absent (<<>>) or has the one value of the tuple
Maybe(key, v) == IF v = <<>> THEN <<>> ELSE key :> v[1]

\* the passwords '', 't' and 'test', the commands '' and 'hi', as bytes
Passwords == {<<>>, <<116>>, <<116, 101, 115, 116>>}
Commands == {<<>>, <<104, 105>>}

\* the packets an application can construct: every type (3 is none of the
\* enum), every direction, with and without each attribute serialize reads
CodecPackets ==
  {Packet(type, direction,
          Maybe("password", pw) @@ Maybe("command", cmd)
            @@ Maybe("sequence", seq)) :
     type \in 0 .. 3, direction \in 0 .. 2,
     pw \in {<<>>} \cup {<<t>> : t \in Passwords},
     cmd \in {<<>>} \cup {<<t>> : t \in Commands},
     seq \in {<<>>, <<0>>, <<255>>}}

InitCodec ==
  /\ listening = FALSE
  /\ connections = <<>>
  /\ conn = [c \in Conns |-> NewConnection(NoOptions)]
  /\ reqs = <<>>
  /\ flight = <<>>
  /\ now = 1
  /\ group = NoGroup
  /\ closed = "open"
  /\ codec \in {[NoCodec EXCEPT !.packet = p] : p \in CodecPackets}

\* packet.serialize()
CodecSerialize ==
  /\ Sent(codec.packet) < MaxSent
  /\ codec.flipped = 0 /\ codec.decoded.error = "unread"
  /\ codec' = [codec EXCEPT !.packet = Serialize(codec.packet).packet,
                            !.error = Serialize(codec.packet).error,
                            !.buffer = Serialize(codec.packet).buffer]
  /\ UNCHANGED <<listening, connections, conn, reqs, flight, now, group,
                 closed>>

\* Packet.FROM of the bytes serialize returned
CodecDecode ==
  /\ codec.error = "none"
  /\ codec' = [codec EXCEPT !.decoded = From(codec.buffer)]
  /\ UNCHANGED <<listening, connections, conn, reqs, flight, now, group,
                 closed>>

\* one bit of the checksum or of the payload changes on the way: bit k of
\* the i-th byte
CodecFlip ==
  /\ codec.error = "none" /\ codec.flipped = 0
  /\ codec.decoded.error = "unread"
  /\ \E i \in 3 .. Len(codec.buffer), k \in 0 .. 7 :
        codec' = [codec EXCEPT !.buffer[i] = XorByte(@, 2 ^ k),
                               !.flipped = i]
  /\ UNCHANGED <<listening, connections, conn, reqs, flight, now, group,
                 closed>>

NextCodec == CodecSerialize \/ CodecDecode \/ CodecFlip

SpecCodec == InitCodec /\ [][NextCodec]_vars

\* a Login Request with a password, a Command Request with a sequence and
\* a command, the acknowledgement of a message: a Message Reply with a
\* sequence
Sendable(p) ==
  \/ /\ p.type = PacketType.Login /\ p.direction = PacketDirection.Request
     /\ Has(p, "password")
  \/ /\ p.type = PacketType.Command /\ p.direction = PacketDirection.Request
     /\ Has(p, "command") /\ Has(p, "sequence")
  \/ /\ p.type = PacketType.Message /\ p.direction = PacketDirection.Reply
     /\ Has(p, "sequence")

\* C29: serialize refuses a Login without password with NoPassword, a
\* Command without command with NoCommand and every packet that is not
\* sendable; a refused serialize leaves `sent` as it is and a successful
\* one adds one to it.
SerializeRefuses ==
  LET p == codec.packet
      r == Serialize(p)
  IN  /\ p.type = PacketType.Login /\ ~Has(p, "password") =>
           r.error = "NoPassword"
      /\ p.type = PacketType.Command /\ ~Has(p, "command") =>
           r.error = "NoCommand"
      /\ ~Sendable(p) => r.error # "none"
      /\ r.error # "none" => Sent(r.packet) = Sent(p)
      /\ r.error = "none" => Sent(r.packet) = Sent(p) + 1

\* the payload fields of a packet: its attributes but `sent`
Fields(p) == [k \in DOMAIN p.attributes \ {"sent"} |-> p.attributes[k]]

\* C30: the bytes serialize returned for a sendable packet decode to a
\* packet of the same type, direction and payload fields.
RoundTrip ==
  /\ Sendable(codec.packet)
  /\ codec.flipped = 0 /\ codec.decoded.error # "unread" =>
    /\ codec.decoded.error = "none"
    /\ codec.decoded.packet.type = codec.packet.type
    /\ codec.decoded.packet.direction = codec.packet.direction
    /\ Fields(codec.decoded.packet) = Fields(codec.packet)

-----------------------------------------------------------------------------
\* C31 as stated: a buffer of serialize with one bit of its payload (the
\* bytes after the six of the header) flipped fails to decode with the
\* PacketError of the checksum.
FlipFailsChecksum ==
  codec.flipped >= 7 /\ codec.decoded.error # "unread" =>
    codec.decoded.error = "PacketError" /\ codec.decoded.text = "checksum"

\* C31: a buffer of serialize with one bit of its payload flipped fails to
\* decode with a PacketError, which is the one of the checksum unless the
\* buffer is shorter than 9 bytes (then it is the one of the length); and
\* no buffer whose checksum word differs from the CRC-32 of its payload
\* decodes to a packet.
FlipFailsDecode ==
  LET buffer == codec.buffer
      payload == SubSeq(buffer, 7, Len(buffer))
  IN  codec.decoded.error # "unread" =>
        /\ codec.flipped >= 7 =>
             /\ codec.decoded.error = "PacketError"
             /\ codec.decoded.text =
                  IF Len(buffer) < 9 THEN "length" ELSE "checksum"
        /\ SubSeq(buffer, 3, 6) # Checksum(payload) =>
             codec.decoded.error # "none"

\* the bytes of a Command Request were decoded after a bit of the command
\* text was flipped
FlippedCommandDecoded ==
  /\ codec.packet.type = PacketType.Command
  /\ codec.flipped >= 10
  /\ codec.decoded.error = "PacketError"

-----------------------------------------------------------------------------
\* C32: a packet has a timestamp once it is constructed, with attributes
\* or without and decoded from a buffer as well, and a Request that was
\* not serialized yet has sent = 0.
PacketTimestamped ==
  /\ Has(codec.packet, "timestamp")
  /\ codec.decoded.error = "none" => Has(codec.decoded.packet, "timestamp")
  /\ codec.error = "unsent" /\
       codec.packet.direction = PacketDirection.Request =>
         Sent(codec.packet) = 0

-----------------------------------------------------------------------------
\* the requests the timeout loop gives up in the run h: resolve rejects them
\* for the Reply packet with the error attribute
GivenUp(h) ==
  {h.out.calls[i].rid : i \in
     {j \in DOMAIN h.out.calls :
        h.out.calls[j].result = Rejected(Undefined, Undefined)}}

\* C33: when the timeout loop gives up Command requests (and no Login), it
\* fails requests that were sent packetTimeoutThresholded times and removes
\* them from the table, the connection stays as connected as it was, no
\* `disconnected` is emitted and every other entry of the table stays where
\* it is, as pending as it was.
RetryFailureLocal ==
  \A h \in {r \in Runs("c1") : r.op \in {"timeout", "sent"}} :
     LET table == conn["c1"].packets
         out   == h.out
         limit == conn["c1"].options.packetTimeoutThresholded
     IN  /\ GivenUp(h) # {}
         /\ \A i \in DOMAIN out.calls : out.calls[i].rid \in GivenUp(h)
         /\ \A rid \in GivenUp(h) : reqs[rid].type = "Command"
         => /\ \A rid \in GivenUp(h) :
                  /\ reqs[rid].sent >= limit
                  /\ \A k \in DOMAIN out.conn["c1"].packets :
                        out.conn["c1"].packets[k] # rid
            /\ out.conn["c1"].connected = conn["c1"].connected
            /\ ~Emitted(h, "c1", "disconnected")
            /\ \A k \in DOMAIN table :
                  table[k] \notin GivenUp(h) =>
                    /\ k \in DOMAIN out.conn["c1"].packets
                    /\ out.conn["c1"].packets[k] = table[k]
                    /\ out.reqs[table[k]].result = reqs[table[k]].result

\* c1 is connected, its timeout interval can fire, and of the two commands
\* of its table the tick gives up exactly one
OneOfTwoGivenUp ==
  /\ conn["c1"].connected /\ TickReady("c1")
  /\ Cardinality(DOMAIN conn["c1"].packets) = 2
  /\ \A k \in DOMAIN conn["c1"].packets :
        reqs[conn["c1"].packets[k]].type = "Command"
  /\ Cardinality(GivenUp(Ticking("c1"))) = 1
  /\ Cardinality(DOMAIN Ticking("c1").out.conn["c1"].packets) = 1


-----------------------------------------------------------------------------
(* SpecImpatient: a connection whose options give a request up after one
   transmission, so that the timeout loop reaches the pending Login *)

ImpatientOptions ==
  {[o EXCEPT !.packetTimeoutThresholded = 1] : o \in TimedOptions}

NextImpatient ==
  \/ Listen
  \/ \E o \in ImpatientOptions : NewConn("c1", o, TRUE)
  \/ AppConnect("c1")
  \/ ServerLogin("c1")
  \/ SendCallback
  \/ TimeoutTick("c1")
  \/ Clock

SpecImpatient == Init /\ [][NextImpatient]_vars

\* the attempts of run h to complete a Login request
LoginCalls(h) ==
  {i \in DOMAIN h.out.calls : reqs[h.out.calls[i].rid].type = "Login"}

\* C34: when the timeout check gives up on the pending Login, connect()
\* completes with ServerTimeout, and neither the reason of the rejection nor
\* the reason of a disconnect of that run is InvalidPassword.
LoginGivenUpAsTimeout ==
  \A h \in {r \in Runs("c1") : r.op = "timeout"} :
     /\ \A i \in LoginCalls(h) :
           h.out.calls[i].result = Rejected("ServerTimeout", Undefined)
     /\ ~EmittedWith(h, "c1", "disconnected", "InvalidPassword")


\* the requests registered in the pending table of connection C
Registrations(C) == {C.packets[k] : k \in DOMAIN C.packets}

\* C35: the completion of a pending request is one-shot: over replies, ticks
\* and disconnects no request is completed twice, none that is completed
\* already is completed again, and a request that a step completes is not
\* registered in the pending table after it; no completed request is
\* registered.
CompletionOneShot ==
  /\ \A rid \in Registrations(conn["c1"]) : reqs[rid].result = Pending
  /\ \A h \in Runs("c1") :
        LET calls == h.out.calls
        IN  /\ \A i \in DOMAIN calls :
                 /\ reqs[calls[i].rid].result = Pending
                 /\ calls[i].rid \notin Registrations(h.out.conn["c1"])
            /\ \A i, j \in DOMAIN calls :
                 calls[i].rid = calls[j].rid => i = j


\* a disconnect of c1 completes a request that is registered
DisconnectCompletes ==
  \E h \in Runs("c1") :
     /\ Disconnects(h, "c1") # {}
     /\ \E i \in DOMAIN h.out.calls :
           h.out.calls[i].rid \in Registrations(conn["c1"])


\* this step is Socket.receive of the Command reply (s, d) on c1, and the
\* reply completes the request registered at s
FirstCopy(s, d) ==
  LET h == Arrival("c1", CommandReply(s, d))
  IN  /\ "c1" \in Registered
      /\ s \in DOMAIN conn["c1"].packets
      /\ reqs[conn["c1"].packets[s]].result = Pending
      /\ conn' = h.out.conn /\ reqs' = h.out.reqs /\ flight' = h.out.flight
      /\ reqs'[conn["c1"].packets[s]].result # Pending

\* the Command reply (s, d) completes nothing, leaves the pending table as
\* it is and is reported once, with resolved = false
CopyIgnored(s, d) ==
  LET h == Arrival("c1", CommandReply(s, d))
  IN  /\ h.out.calls = <<>>
      /\ h.out.conn["c1"].packets = conn["c1"].packets
      /\ Cardinality(CommandEvents(h, "c1")) = 1
      /\ \A i \in CommandEvents(h, "c1") : ~Events(h.out)[i].resolved

\* C36: when the server duplicates a Command reply, the first copy
\* completes the pending request of its sequence, and the second copy, which
\* finds no request pending at that sequence, completes nothing, changes no
\* pending entry and is reported by a `command` event with resolved = false.
DuplicateReplyIgnored ==
  [][\A s \in 0 .. MaxSequence, d \in ReplyTexts :
        FirstCopy(s, d) => CopyIgnored(s, d)']_vars


-----------------------------------------------------------------------------
(* SpecVariant: the Connection of src/src/connection.ts.  It keeps the Login
   request in packets[0] and the Command requests in the array packets[1],
   indexed by sequence number.  command() needs `connected`, so while the
   Login request is not registered the table of the model is packets[1]. *)

\* Connection.resolve of connection.ts, Command case: it completes the
\* request at packets[1][sequence] and splices that index out of the array
ResolveCommandVariant(S, c, packet) ==
  LET s   == packet.sequence
      has == s \in DOMAIN S.conn[c].packets
      rid == S.conn[c].packets[s]
      S1 == IF has
            THEN [Settle(S, rid,
                         IF packet.data = UnknownCommandText
                         THEN Rejected("UnknownCommand",
                                       S.reqs[rid].command)
                         ELSE Resolved(packet.hasData, packet.data, FALSE))
                    EXCEPT !.conn[c].packets = SpliceSlot(@, s)]
            ELSE S
  IN  Emit(S1, [src |-> c, name |-> "command", arg |-> packet.data,
                resolved |-> has])

\* a Command reply reaches resolve of the connection.ts variant
VariantReply(c, s, d) ==
  /\ c \in Registered
  /\ conn[c].connected
  /\ ~LoginStored(c)
  /\ Finish(ResolveCommandVariant(Start, c, CommandReply(s, d)))
  /\ UNCHANGED <<listening, connections, now, group, closed, codec>>

NextVariant ==
  \/ Listen
  \/ \E o \in SessionOptions : NewConn("c1", o, TRUE)
  \/ ServerLogin("c1")
  \/ \E r \in BOOLEAN : AppCommand("c1", "players", r)
  \/ SendCallback
  \/ \E s \in 0 .. MaxSequence, d \in ReplyTexts : VariantReply("c1", s, d)

SpecVariant == Init /\ [][NextVariant]_vars

\* C37: in the Connection of src/src/connection.ts, completing the pending
\* Command request at sequence s leaves every other pending Command request
\* registered at its own sequence number: the completion clears the slot in
\* place and moves no later entry.
CompletionInPlace ==
  "c1" \in Registered /\ conn["c1"].connected /\ ~LoginStored("c1") =>
    \A s \in DOMAIN conn["c1"].packets, d \in ReplyTexts :
       LET out == ResolveCommandVariant(Start, "c1", CommandReply(s, d))
       IN  \A t \in DOMAIN conn["c1"].packets \ {s} :
              /\ t \in DOMAIN out.conn["c1"].packets
              /\ out.conn["c1"].packets[t] = conn["c1"].packets[t]


\* C38: reassembly works for every sequence number in 0..255, on a fresh
\* connection and after a disconnect: a Split fragment at any sequence, 255
\* in particular, is stored in the reassembly table and raises no error.
FragmentStoredAnywhere ==
  "c1" \in Registered =>
    \A s \in {0, MaxSequence, LastSequence} :
       LET h == Arrival("c1", SplitReply(s, 2, 0, <<"part">>))
       IN  /\ ~Emitted(h, "process", "unhandledRejection")
           /\ 0 \in DOMAIN Fragments(h.out.conn["c1"], s).items
           /\ Fragments(h.out.conn["c1"], s).items[0] = <<"part">>


\* C39: when a reassembly attempt at sequence s ends, which the fragment
\* with the last index brings about (the reply is synthesized, or the group
\* has a gap and the request is failed or retransmitted), the reassembly
\* slot of s is empty.
ReassemblySlotFreed ==
  "c1" \in Registered =>
    \A total \in 1 .. MaxTotal :
       LET h == Arrival("c1", SplitReply(0, total, total - 1, <<"part">>))
       IN  Fragments(h.out.conn["c1"], 0) = NoFragments


-----------------------------------------------------------------------------
(* SpecTeardown: a session that the application tears down and connects
   again while writes are in flight; requests are made by connect() and
   command() only *)

NextTeardown ==
  \/ Listen
  \/ \E o \in SessionOptions : NewConn("c1", o, TRUE)
  \/ AppConnect("c1")
  \/ ServerLogin("c1")
  \/ AppCommand("c1", "players", TRUE)
  \/ AppKill("c1", "Error")
  \/ SendCallback

SpecTeardown == Init /\ [][NextTeardown]_vars

\* C40: a disconnect leaves no request of the old session behind.  command()
\* needs `connected`, so a Command whose write is in flight while the
\* connection is disconnected was sent before the disconnect: the callback
\* of that write does not register it, and the pending table, empty since
\* the disconnect, stays empty.
NoStaleRegistration ==
  \A h \in {r \in Runs("c1") : r.op = "sent"} :
     /\ ~conn["c1"].connected
     /\ conn["c1"].packets = <<>>
     /\ Head(flight).rid # 0
     /\ reqs[Head(flight).rid].type = "Command"
     => h.out.conn["c1"].packets = <<>>

=============================================================================
